---- MODULE Spec2Model ----
(***************************************************************************)
(* Model of the sweep planning and execution engine of keithley_gui:       *)
(*   waveform_maker.py  - waveform generation, plan building, resume match *)
(*   voltage_sweeper.py - RunWorker: the pausable/resumable run loop       *)
(*                                                                         *)
(* Units.  Voltages are integers in units of 0.5 uV (1000 stands for       *)
(* 0.5 mV), squared distances in units of 2.5e-13 V^2.  Times are integers *)
(* in units of 1e-4 s (0.1 ms).  delay_ratio is given in tenths (8 stands  *)
(* for 0.8).  NPLC values are integers in units of 1e-5 power line cycles. *)
(***************************************************************************)
EXTENDS Integers, Sequences, FiniteSets, TLC

\* ------------------------------------------------------------------ bounds

\* control calls (request_pause / request_resume / request_stop) per run
MaxCalls == 2
\* clock ticks counted while the priming measurement runs
MaxPrimeTicks == 4
\* the longest configuration list, dt_list and the largest repeat handed to
\* build_plan on its own
MaxChannels == 2
MaxDts == 2
MaxRepeat == 2
\* the longest plan handed to find_resume_index on its own
MaxPlanLen == 3
\* the largest sample count and the largest |n_offset| of a waveform built
\* on its own
MaxCount == 2
MaxOffset == 3
\* the most channels handed to one trigger phase built on its own
MaxPhaseChannels == 3

\* ------------------------------------------------------- program constants

\* RunWorker._min_programmed_step_s = 1e-3 s
MinProgrammedStep == 10
\* RunWorker._reprogram_threshold_s = 2e-4 s
ReprogramThreshold == 2
\* fallback mains frequency of _set_ktime, Hz
DefaultLineFreq == 50
\* NPLC clamp of _set_ktime: 0.001 .. 25.0 power line cycles
NplcMin == 100
NplcMax == 2500000
\* the absolute tie tolerance of find_resume_index, 1e-12 V^2
AbsTol == 4

\* ----------------------------------------------------------------- helpers

Max(a, b) == IF a >= b THEN a ELSE b
Min(a, b) == IF a <= b THEN a ELSE b
Abs(a) == IF a < 0 THEN -a ELSE a

\* np.full(n, v)
Full(n, v) == [i \in 1..n |-> v]

\* np.linspace(a, b, n): n evenly spaced samples, both end points included
\* (exact whenever (b - a) * i is divisible by n - 1, which holds for every
\* configuration of the model)
Linspace(a, b, n) ==
    IF n <= 0 THEN <<>>
    ELSE IF n = 1 THEN <<a>>
    ELSE [i \in 1..n |-> a + ((b - a) * (i - 1)) \div (n - 1)]

\* s[:-1]
DropLast(s) == IF Len(s) = 0 THEN s ELSE SubSeq(s, 1, Len(s) - 1)
\* s[1:-1]
Interior(s) == IF Len(s) <= 2 THEN <<>> ELSE SubSeq(s, 2, Len(s) - 1)

\* int(x / d) of Python for d # 0: truncation towards zero
TruncDiv(x, d) ==
    IF (x >= 0) = (d > 0) THEN Abs(x) \div Abs(d) ELSE -(Abs(x) \div Abs(d))

\* Python's x % m for m > 0 (the result is never negative)
PyMod(x, m) == x % m

\* --------------------------------------------------------------- the state

VARIABLES
    self,   \* the attributes of the RunWorker object
    pc,     \* where run() is
    loc,    \* the local variables of run()
    ctl,    \* the control thread: the request_* call in progress
    obs,    \* what the collaborators see: signals, results, exports, calls
    mon     \* history of the run, for the properties

\* ------------------------------------------------------------- file system

\* the files on disk when a run starts: path -> the numbers np.loadtxt
\* returns (first column); NonFinite stands for nan/inf samples
NonFinite == 999999
DiskFiles == [p \in {"wave.csv", "nan.csv"} |->
                IF p = "wave.csv" THEN <<0, 1000>> ELSE <<NonFinite>>]
\* the files build_csv_wave sees when it is called
Files == obs.files

\* ------------------------------------------------------- waveform_maker.py

\* ChannelConfig with the defaults the GUI gives a row
ChannelConfig(channel_name, waveform, measure_voltage, measure_current) ==
    [channel_name |-> channel_name, name |-> channel_name,
     waveform |-> waveform,
     measure_voltage |-> measure_voltage, measure_current |-> measure_current,
     start_voltage |-> 0, first_node |-> 0, second_node |-> 0, dV |-> 0,
     v_high |-> 0, v_low |-> 0, v_mid |-> 0, v_fixed |-> 0,
     n_high |-> 0, n_low |-> 0, n_mid |-> 0, n_ramp |-> 0, n_offset |-> 0,
     v_amp |-> 0, v_offset |-> 0, n_period |-> 1,
     csv_path |-> "", independent |-> FALSE, link_next |-> FALSE]

\* variant of lines 87-89 that rotates to the right: cycle[-shift:] + cycle[:-shift]
RotateLeft_Right(cycle, shift) ==
    IF shift = 0 THEN cycle
    ELSE SubSeq(cycle, Len(cycle) - shift + 1, Len(cycle))
            \o SubSeq(cycle, 1, Len(cycle) - shift)

\* cycle[shift:] + cycle[:shift]
RotateLeft(cycle, shift) ==
    IF shift = 0 THEN cycle
    ELSE SubSeq(cycle, shift + 1, Len(cycle)) \o SubSeq(cycle, 1, shift)

build_square_wave(cfg, include_final_low) ==
    LET n_high == Max(0, cfg.n_high)
        n_low == Max(0, cfg.n_low)
        n_ramp == Max(0, cfg.n_ramp)
        ramp_up == IF n_ramp > 0
                   THEN Interior(Linspace(cfg.v_low, cfg.v_high, n_ramp + 2))
                   ELSE <<>>
        ramp_down == IF n_ramp > 0
                     THEN Interior(Linspace(cfg.v_high, cfg.v_low, n_ramp + 2))
                     ELSE <<>>
        high == Full(n_high, cfg.v_high)
        low == Full(n_low, cfg.v_low)
        cycle0 == low \o ramp_up \o high \o ramp_down
        cycle == IF include_final_low THEN cycle0 \o low ELSE cycle0
    IN  IF Len(cycle) = 0 THEN <<cfg.v_low>>
        ELSE RotateLeft(cycle, PyMod(cfg.n_offset, Len(cycle)))

build_square3_wave(cfg) ==
    LET n_high == Max(0, cfg.n_high)
        n_low == Max(0, cfg.n_low)
        n_mid == Max(0, cfg.n_mid)
        mid == Full(n_mid, cfg.v_mid)
        low == Full(n_low, cfg.v_low)
        high == Full(n_high, cfg.v_high)
        cycle == mid \o low \o mid \o high
    IN  IF Len(cycle) = 0 THEN <<cfg.v_mid>>
        ELSE RotateLeft(cycle, PyMod(cfg.n_offset, Len(cycle)))

\* sin(2*pi*k/n) rounded to the voltage unit, for the periods of the model
SinUnit(k, n) ==
    IF n = 4 THEN (IF k = 1 THEN 1 ELSE IF k = 3 THEN -1 ELSE 0) ELSE 0

\* variant of line 119 without the floor of one sample: max(0, n_period)
build_sine_wave_NoFloor(cfg) ==
    LET n_period == Max(0, cfg.n_period)
    IN  [i \in 1..n_period |-> cfg.v_offset + cfg.v_amp * SinUnit(i - 1, n_period)]

build_sine_wave(cfg) ==
    LET n_period == Max(1, cfg.n_period)
    IN  [i \in 1..n_period |-> cfg.v_offset + cfg.v_amp * SinUnit(i - 1, n_period)]

\* the ValueError text of build_csv_wave, "" when the file loads
build_csv_wave_error(cfg) ==
    IF cfg.csv_path = "" THEN "CSV waveform selected but no file path provided."
    ELSE IF cfg.csv_path \notin DOMAIN Files THEN "CSV waveform file not found"
    ELSE IF SelectSeq(Files[cfg.csv_path], LAMBDA x : x # NonFinite) = <<>>
         THEN "CSV waveform file has no numeric values"
    ELSE ""

build_csv_wave(cfg) == SelectSeq(Files[cfg.csv_path], LAMBDA x : x # NonFinite)

\* variant of lines 51-60 in which the third leg is trimmed like the first two
build_triangle_wave_AllTrimmed(cfg) ==
    IF cfg.dV = 0 THEN <<cfg.start_voltage>>
    ELSE LET n1 == 1 + Abs(TruncDiv(cfg.first_node - cfg.start_voltage, cfg.dV))
             n2 == 1 + Abs(TruncDiv(cfg.second_node - cfg.first_node, cfg.dV))
             n3 == 1 + Abs(TruncDiv(cfg.start_voltage - cfg.second_node, cfg.dV))
             v_range1 == DropLast(Linspace(cfg.start_voltage, cfg.first_node, n1))
             v_range2 == DropLast(Linspace(cfg.first_node, cfg.second_node, n2))
             v_range3 == DropLast(Linspace(cfg.second_node, cfg.start_voltage, n3))
         IN  v_range1 \o v_range2 \o v_range3

build_triangle_wave(cfg) ==
    IF cfg.dV = 0 THEN <<cfg.start_voltage>>
    ELSE LET n1 == 1 + Abs(TruncDiv(cfg.first_node - cfg.start_voltage, cfg.dV))
             n2 == 1 + Abs(TruncDiv(cfg.second_node - cfg.first_node, cfg.dV))
             n3 == 1 + Abs(TruncDiv(cfg.start_voltage - cfg.second_node, cfg.dV))
             v_range1 == DropLast(Linspace(cfg.start_voltage, cfg.first_node, n1))
             v_range2 == DropLast(Linspace(cfg.first_node, cfg.second_node, n2))
             v_range3 == Linspace(cfg.second_node, cfg.start_voltage, n3)
         IN  v_range1 \o v_range2 \o v_range3

\* the ValueError text build_v_range raises for cfg, "" when it returns
build_v_range_error(cfg) ==
    IF cfg.waveform = "csv" THEN build_csv_wave_error(cfg) ELSE ""

build_v_range(cfg, square_final_low) ==
    IF cfg.waveform = "csv" THEN build_csv_wave(cfg)
    ELSE IF cfg.waveform = "square" THEN build_square_wave(cfg, square_final_low)
    ELSE IF cfg.waveform = "square-3" THEN build_square3_wave(cfg)
    ELSE IF cfg.waveform = "sine" THEN build_sine_wave(cfg)
    ELSE IF cfg.waveform = "fixed" THEN <<cfg.v_fixed>>
    ELSE build_triangle_wave(cfg)

\* variant of lines 139-149 without the final "if current" of lines 147-148
RECURSIVE build_groups_from_DropOpen(_, _, _, _)
build_groups_from_DropOpen(configs, idx, current, groups) ==
    IF idx > Len(configs)
    THEN groups
    ELSE IF ~configs[idx].link_next
         THEN build_groups_from_DropOpen(configs, idx + 1, <<>>,
                                Append(groups, Append(current, idx)))
         ELSE build_groups_from_DropOpen(configs, idx + 1, Append(current, idx),
                                         groups)

\* groups of channel indices (1-based): a group ends at a channel without
\* link_next, and at the last channel
RECURSIVE build_groups_from(_, _, _, _)
build_groups_from(configs, idx, current, groups) ==
    IF idx > Len(configs)
    THEN (IF current # <<>> THEN Append(groups, current) ELSE groups)
    ELSE IF ~configs[idx].link_next
         THEN build_groups_from(configs, idx + 1, <<>>,
                                Append(groups, Append(current, idx)))
         ELSE build_groups_from(configs, idx + 1, Append(current, idx), groups)

build_groups(configs) == build_groups_from(configs, 1, <<>>, <<>>)

\* variant: np.pad(r, (0, max_len - len(r)), mode="wrap")
PadEdge_Wrap(r, max_len) ==
    [i \in 1..max_len |-> r[((i - 1) % Len(r)) + 1]]

\* np.pad(r, (0, max_len - len(r)), mode="edge")
PadEdge(r, max_len) ==
    [i \in 1..max_len |-> IF i <= Len(r) THEN r[i] ELSE r[Len(r)]]

RECURSIVE SeqMaxLen(_)
SeqMaxLen(rs) == IF rs = <<>> THEN 0 ELSE Max(Len(Head(rs)), SeqMaxLen(Tail(rs)))

\* list(zip(*padded)) of one group: position -> tuple of the members' values
group_iter(group, v_ranges) ==
    LET group_ranges == [k \in 1..Len(group) |-> v_ranges[group[k]]]
        max_len == SeqMaxLen(group_ranges)
    IN  [i \in 1..max_len |->
            [k \in 1..Len(group) |-> PadEdge(group_ranges[k], max_len)[i]]]

\* variant of the product in which the first factor varies fastest
RECURSIVE product_FirstFastest(_)
product_FirstFastest(group_iters) ==
    IF group_iters = <<>> THEN << <<>> >>
    ELSE LET first == Head(group_iters)
             rest == product_FirstFastest(Tail(group_iters))
             m == Len(first)
         IN  [i \in 1..(m * Len(rest)) |->
                <<first[((i - 1) % m) + 1]>> \o rest[((i - 1) \div m) + 1]]

\* itertools.product(*group_iters): the last factor varies fastest
RECURSIVE product(_)
product(group_iters) ==
    IF group_iters = <<>> THEN << <<>> >>
    ELSE LET first == Head(group_iters)
             rest == product(Tail(group_iters))
             n == Len(rest)
         IN  [i \in 1..(Len(first) * n) |->
                <<first[((i - 1) \div n) + 1]>> \o rest[((i - 1) % n) + 1]]

\* flat = [0.0] * n, then flat[idx] = val for every (group, values) of one
\* combination
flatten(groups, combo, n) ==
    [idx \in 1..n |->
        LET holds(g) == \E k \in 1..Len(groups[g]) : groups[g][k] = idx
        IN  IF \E g \in 1..Len(groups) : holds(g)
            THEN LET g == CHOOSE g \in 1..Len(groups) : holds(g)
                     k == CHOOSE k \in 1..Len(groups[g]) : groups[g][k] = idx
                 IN  combo[g][k]
            ELSE 0]

iterate_groups(groups, v_ranges) ==
    LET group_iters == [g \in 1..Len(groups) |-> group_iter(groups[g], v_ranges)]
        combos == product(group_iters)
    IN  [c \in 1..Len(combos) |-> flatten(groups, combos[c], Len(v_ranges))]

MeasureEntry(dt, volt) == [type |-> "measure", dt |-> dt, volt |-> volt, seconds |-> 0]
SleepEntry(seconds) == [type |-> "sleep", dt |-> 0, volt |-> <<>>, seconds |-> seconds]

\* variant of lines 217-223 with the sleep entry once per dt instead of once
\* per repetition
RECURSIVE plan_blocks_SleepPerDt(_, _, _, _)
plan_blocks_SleepPerDt(sequence, dt_list, repeat, round_delay) ==
    IF dt_list = <<>> THEN <<>>
    ELSE LET RECURSIVE copies(_)
             copies(n) ==
                IF n <= 0 THEN <<>>
                ELSE [i \in 1..Len(sequence) |->
                        [type |-> "measure", dt |-> Head(dt_list),
                         volt |-> sequence[i], seconds |-> 0]] \o copies(n - 1)
         IN  copies(repeat)
                \o (IF round_delay > 0 /\ repeat > 0
                    THEN <<[type |-> "sleep", dt |-> 0, volt |-> <<>>,
                            seconds |-> round_delay]>>
                    ELSE <<>>)
                \o plan_blocks_SleepPerDt(sequence, Tail(dt_list), repeat,
                                          round_delay)

\* one repetition: the sequence, then a sleep entry when round_delay > 0
plan_pass(sequence, dt_in, round_delay) ==
    [i \in 1..Len(sequence) |-> MeasureEntry(dt_in, sequence[i])]
        \o (IF round_delay > 0 THEN <<SleepEntry(round_delay)>> ELSE <<>>)

RECURSIVE repeat_pass(_, _)
repeat_pass(pass, repeat) ==
    IF repeat <= 0 THEN <<>> ELSE pass \o repeat_pass(pass, repeat - 1)

RECURSIVE plan_blocks(_, _, _, _)
plan_blocks(sequence, dt_list, repeat, round_delay) ==
    IF dt_list = <<>> THEN <<>>
    ELSE repeat_pass(plan_pass(sequence, Head(dt_list), round_delay), repeat)
            \o plan_blocks(sequence, Tail(dt_list), repeat, round_delay)

build_plan_with(configs, dt_list, repeat, round_delay, square_final_low) ==
    LET v_ranges == [i \in 1..Len(configs) |->
                        build_v_range(configs[i], square_final_low)]
        groups == build_groups(configs)
        sequence == iterate_groups(groups, v_ranges)
    IN  plan_blocks(sequence, dt_list, repeat, round_delay)

build_plan(configs, dt_list, repeat, round_delay) ==
    build_plan_with(configs, dt_list, repeat, round_delay, TRUE)

\* Optional values: None is the empty sequence, a value v is <<v>>
None == <<>>
Some(v) == <<v>>

\* the "not found" result of find_resume_index (indices are 0-based)
NotFound == -1

RECURSIVE SumSq(_)
SumSq(d) == IF d = <<>> THEN 0 ELSE Head(d) * Head(d) + SumSq(Tail(d))

RECURSIVE Dot(_, _)
Dot(a, b) ==
    IF a = <<>> \/ b = <<>> THEN 0
    ELSE Head(a) * Head(b) + Dot(Tail(a), Tail(b))

\* variant of line 253 that compares the first channel only
SqDist_FirstOnly(volt, last_volt) ==
    SumSq([i \in 1..Min(1, Min(Len(volt), Len(last_volt))) |->
                volt[i] - last_volt[i]])

\* sum((a - b) ** 2 for a, b in zip(volt, last_volt))
SqDist(volt, last_volt) ==
    SumSq([i \in 1..Min(Len(volt), Len(last_volt)) |-> volt[i] - last_volt[i]])

\* dist <= best_dist + max(1e-12, best_dist * 1e-6) for integer distances:
\* an integer is at most best_dist * 1e-6 iff it is at most its integer part
WithinTol(dist, best_dist) ==
    dist - best_dist <= Max(AbsTol, best_dist \div 1000000)

\* variant of the scan without the arity check of line 251
RECURSIVE scan_candidates_AnyArity(_, _, _, _)
scan_candidates_AnyArity(plan, last_volt, idx, st) ==
    IF idx >= Len(plan) THEN st
    ELSE LET entry == plan[idx + 1]
             dist == SqDist(entry.volt, last_volt)
         IN  IF entry.type # "measure"
             THEN scan_candidates_AnyArity(plan, last_volt, idx + 1, st)
             ELSE IF st.best = None \/ dist < st.best[1]
             THEN scan_candidates_AnyArity(plan, last_volt, idx + 1,
                                  [best |-> Some(dist), cands |-> <<idx>>])
             ELSE IF WithinTol(dist, st.best[1])
             THEN scan_candidates_AnyArity(plan, last_volt, idx + 1,
                                  [best |-> st.best, cands |-> Append(st.cands, idx)])
             ELSE scan_candidates_AnyArity(plan, last_volt, idx + 1, st)

\* the scan of lines 245-260: st = [best |-> Option(dist), cands |-> indices]
RECURSIVE scan_candidates(_, _, _, _)
scan_candidates(plan, last_volt, idx, st) ==
    IF idx >= Len(plan) THEN st
    ELSE LET entry == plan[idx + 1]
             dist == SqDist(entry.volt, last_volt)
         IN  IF entry.type # "measure" \/ Len(entry.volt) # Len(last_volt)
             THEN scan_candidates(plan, last_volt, idx + 1, st)
             ELSE IF st.best = None \/ dist < st.best[1]
             THEN scan_candidates(plan, last_volt, idx + 1,
                                  [best |-> Some(dist), cands |-> <<idx>>])
             ELSE IF WithinTol(dist, st.best[1])
             THEN scan_candidates(plan, last_volt, idx + 1,
                                  [best |-> st.best, cands |-> Append(st.cands, idx)])
             ELSE scan_candidates(plan, last_volt, idx + 1, st)

\* prev_measure_idx[idx]: the last measure entry before idx, NotFound if none
prev_measure_idx(plan, idx) ==
    LET before == {j \in 0..(idx - 1) : plan[j + 1].type = "measure"}
    IN  IF before = {} THEN NotFound
        ELSE CHOOSE j \in before : \A k \in before : k <= j

\* direction_alignment as [ok, dot, sq]: the cosine is dot / (|last_delta| * sqrt(sq))
direction_alignment(plan, candidate_idx, last_delta) ==
    LET prev_idx == prev_measure_idx(plan, candidate_idx)
    IN  IF prev_idx = NotFound THEN [ok |-> FALSE, dot |-> 0, sq |-> 0]
        ELSE LET prev_volt == plan[prev_idx + 1].volt
                 curr_volt == plan[candidate_idx + 1].volt
                 delta == [i \in 1..Min(Len(curr_volt), Len(prev_volt)) |->
                              curr_volt[i] - prev_volt[i]]
             IN  IF SumSq(last_delta) = 0 \/ SumSq(delta) = 0
                 THEN [ok |-> FALSE, dot |-> 0, sq |-> 0]
                 ELSE [ok |-> TRUE, dot |-> Dot(last_delta, delta), sq |-> SumSq(delta)]

\* a.dot / sqrt(a.sq) > b.dot / sqrt(b.sq), without square roots: the
\* squares a.dot^2 / a.sq and b.dot^2 / b.sq are compared as fractions, by
\* their integer parts and then the inverted remainders, so that no product
\* leaves the 32-bit range
AlignGreater(a, b) ==
    LET RECURSIVE Greater(_, _, _, _)
        Greater(p1, q1, p2, q2) ==
            IF p1 \div q1 # p2 \div q2 THEN p1 \div q1 > p2 \div q2
            ELSE IF p1 % q1 = 0 THEN FALSE
            ELSE IF p2 % q2 = 0 THEN TRUE
            ELSE Greater(q2, p2 % q2, q1, p1 % q1)
    IN  IF a.dot >= 0 /\ b.dot < 0 THEN TRUE
        ELSE IF a.dot < 0 /\ b.dot >= 0 THEN FALSE
        ELSE IF a.dot >= 0 THEN Greater(a.dot * a.dot, a.sq, b.dot * b.dot, b.sq)
        ELSE Greater(b.dot * b.dot, b.sq, a.dot * a.dot, a.sq)

\* the loop of lines 287-297 over the candidates
RECURSIVE best_aligned(_, _, _, _, _)
best_aligned(plan, cands, last_delta, best_idx, best_align) ==
    IF cands = <<>> THEN best_idx
    ELSE LET align == direction_alignment(plan, Head(cands), last_delta)
         IN  IF ~align.ok
             THEN best_aligned(plan, Tail(cands), last_delta, best_idx, best_align)
             ELSE IF best_align = None \/ AlignGreater(align, best_align[1])
             THEN best_aligned(plan, Tail(cands), last_delta, Head(cands), Some(align))
             ELSE best_aligned(plan, Tail(cands), last_delta, best_idx, best_align)

\* find_resume_index(plan, last_volt, last_delta); last_volt and last_delta
\* are Options
find_resume_index_delta(plan, last_volt, last_delta) ==
    IF plan = <<>> \/ last_volt = None THEN NotFound
    ELSE LET delta == IF last_delta # None /\ Len(last_delta[1]) # Len(last_volt[1])
                      THEN None ELSE last_delta
             st == scan_candidates(plan, last_volt[1], 0, [best |-> None, cands |-> <<>>])
         IN  IF st.cands = <<>> THEN NotFound
             ELSE IF delta = None THEN st.cands[1]
             ELSE best_aligned(plan, st.cands, delta[1], st.cands[1], None)

\* find_resume_index(plan, last_volt): last_delta defaults to None
find_resume_index(plan, last_volt) == find_resume_index_delta(plan, last_volt, None)

\* ------------------------------------------------------ voltage_sweeper.py

\* build_sweepers: one record per config (the channel is named by channel_name)
build_sweepers(configs) ==
    [i \in 1..Len(configs) |->
        [channel |-> configs[i].channel_name,
         name |-> configs[i].name,
         measure_voltage |-> configs[i].measure_voltage,
         measure_current |-> configs[i].measure_current,
         meas_v_param |-> configs[i].measure_voltage,
         independent |-> configs[i].independent,
         v_range |-> build_v_range(configs[i], TRUE)]]

\* the ValueError text build_sweepers (or build_plan) raises, "" when none
RECURSIVE build_error(_)
build_error(configs) ==
    IF configs = <<>> THEN ""
    ELSE IF build_v_range_error(Head(configs)) # ""
         THEN build_v_range_error(Head(configs))
         ELSE build_error(Tail(configs))

_has_dual_measurement(sweepers) ==
    \E i \in 1..Len(sweepers) :
        sweepers[i].measure_voltage /\ sweepers[i].measure_current

_has_any_measurement(sweepers) ==
    \E i \in 1..Len(sweepers) :
        sweepers[i].measure_voltage \/ sweepers[i].measure_current


\* ---- dictionaries keyed by channel: functions on a set of channel names

EmptyDict == <<>>
\* a.update(b)
DictUpdate(a, b) ==
    [k \in (DOMAIN a) \cup (DOMAIN b) |-> IF k \in DOMAIN b THEN b[k] ELSE a[k]]
\* for k, v in b.items(): a.setdefault(k, v)
DictSetDefault(a, b) == DictUpdate(b, a)

\* ---- the instrument, as far as the run loop observes it

\* what ch.linefreq() reports (0 stands for an unusable answer)
LineFreq(ch) == IF ch = "k1.smub" THEN 60 ELSE IF ch = "k2.smua" THEN 0 ELSE 50

\* the reading a trigger phase latches for a channel sourcing voltage v:
\* voltage mode returns 10*v, current mode 100 + 10*v, and the second
\* trigger of a step reads 2 more than the first (settling drift)
Reading(v, mode, phase) ==
    (IF mode = "v" THEN 10 * v ELSE 100 + 10 * v) + (IF phase = 2 THEN 2 ELSE 0)

\* ---- _set_ktime

\* variant of lines 474-480 without the first branch: only a channel
\* measuring both quantities gets half of dt_in
dt_effective_DualOnly(sweeper, dt_in, split) ==
    IF sweeper.measure_voltage /\ sweeper.measure_current
    THEN dt_in \div 2
    ELSE dt_in

\* the effective integration window of one sweeper (lines 474-480)
dt_effective(sweeper, dt_in, split) ==
    IF split /\ (sweeper.measure_voltage \/ sweeper.measure_current)
    THEN dt_in \div 2
    ELSE IF sweeper.measure_voltage /\ sweeper.measure_current
    THEN dt_in \div 2
    ELSE dt_in

\* lines 486-503 for one sweeper: the NPLC written (units of 1e-5 cycles) and
\* the delay written (delay_x = delay * 1e5 * linefreq, so that it is exact)
ktime_op(sweeper, dt_in, ratio, split) ==
    LET dt_eff == dt_effective(sweeper, dt_in, split)
        reported == LineFreq(sweeper.channel)
        linefreq_hz == IF reported <= 0 THEN DefaultLineFreq ELSE reported
        nplc_target == Max(NplcMin, Min(NplcMax, dt_eff * linefreq_hz * (10 - ratio)))
        nplc_applied == nplc_target
    IN  [op |-> "timing", ch |-> sweeper.channel, dt_in |-> dt_in,
         split_for_dual |-> split, dt_effective |-> dt_eff,
         delay_ratio |-> ratio, nplc |-> nplc_target,
         delay_x |-> Max(0, dt_eff * 10 * linefreq_hz - nplc_applied)]

_set_ktime(sweepers, dt_in, ratio, split) ==
    [i \in 1..Len(sweepers) |-> ktime_op(sweepers[i], dt_in, ratio, split)]

\* ---- set_v over zip(entry["volt"], sweepers)

set_v_ops(volt, sweepers) ==
    [i \in 1..Min(Len(volt), Len(sweepers)) |->
        [op |-> "set_v", ch |-> sweepers[i].channel, v |-> volt[i]]]

\* step_source_values of lines 239-240
step_source_values(volt, sweepers) ==
    LET n == Min(Len(volt), Len(sweepers))
    IN  [ch \in {sweepers[i].channel : i \in 1..n} |->
            LET i == CHOOSE i \in 1..n : sweepers[i].channel = ch /\
                        \A j \in 1..n : sweepers[j].channel = ch => j <= i
            IN  volt[i]]

\* ---- _trigger_phase and _measure_step_trigger_readings

dual_of(sweepers) ==
    SelectSeq(sweepers, LAMBDA s : s.measure_voltage /\ s.measure_current)
v_only_of(sweepers) ==
    SelectSeq(sweepers, LAMBDA s : s.measure_voltage /\ ~s.measure_current)
i_only_of(sweepers) ==
    SelectSeq(sweepers, LAMBDA s : s.measure_current /\ ~s.measure_voltage)

\* variant in which every channel is put in current mode
modes_of_Current(ss, mode) == [i \in 1..Len(ss) |-> <<ss[i].channel, "i">>]

\* channel_modes of a list of sweepers, as a sequence of <<channel, mode>>
modes_of(ss, mode) == [i \in 1..Len(ss) |-> <<ss[i].channel, mode>>]

\* _trigger_phase: no instrument call for an empty channel_modes; otherwise
\* one bus trigger, then one buffer read per channel. The source value the
\* buffer reports differs from the commanded one by the number of the phase
\* (0.5 uV per phase), so that the two can be told apart.
_trigger_phase(channel_modes, src, phase) ==
    LET chans == {channel_modes[i][1] : i \in 1..Len(channel_modes)}
        mode_of(ch) == channel_modes[
            CHOOSE i \in 1..Len(channel_modes) : channel_modes[i][1] = ch][2]
        source_of(ch) == IF ch \in DOMAIN src THEN src[ch] ELSE 0
    IN  [ops |-> IF channel_modes = <<>> THEN <<>>
                 ELSE <<[op |-> "trigger", modes |-> channel_modes]>>,
         source_vals |-> [ch \in chans |-> source_of(ch) + phase],
         readings |-> [ch \in chans |-> Reading(source_of(ch), mode_of(ch), phase)]]

\* variant of lines 410-426 that keeps the first-phase reading
phase_value_FirstPhase(ch, r1, r2) ==
    IF ch \in DOMAIN r1 THEN r1[ch] ELSE r2[ch]

\* value of a single-quantity channel in two-phase mode (lines 410-426)
phase_value(ch, r1, r2) ==
    IF ch \in DOMAIN r1 /\ ch \in DOMAIN r2 THEN (r1[ch] + r2[ch]) \div 2
    ELSE IF ch \in DOMAIN r1 THEN r1[ch]
    ELSE r2[ch]

_measure_step_trigger_readings(sweepers, split, src) ==
    LET dual == dual_of(sweepers)
        v_only == v_only_of(sweepers)
        i_only == i_only_of(sweepers)
        chan(ss) == {ss[i].channel : i \in 1..Len(ss)}
    IN  IF split /\ dual # <<>>
        THEN LET p1 == _trigger_phase(modes_of(dual, "v") \o modes_of(v_only, "v")
                                        \o modes_of(i_only, "i"), src, 1)
                 p2 == _trigger_phase(modes_of(dual, "i") \o modes_of(i_only, "i")
                                        \o modes_of(v_only, "v"), src, 2)
                 seen == (DOMAIN p1.readings) \cup (DOMAIN p2.readings)
             IN  [ops |-> p1.ops \o p2.ops,
                  source_vals |-> DictUpdate(p1.source_vals, p2.source_vals),
                  measured_volt |->
                    [ch \in ((chan(dual) \cap DOMAIN p1.readings)
                                \cup (chan(v_only) \cap seen)) |->
                        IF ch \in chan(v_only)
                        THEN phase_value(ch, p1.readings, p2.readings)
                        ELSE p1.readings[ch]],
                  measured_curr |->
                    [ch \in ((chan(dual) \cap DOMAIN p2.readings)
                                \cup (chan(i_only) \cap seen)) |->
                        IF ch \in chan(i_only)
                        THEN phase_value(ch, p1.readings, p2.readings)
                        ELSE p2.readings[ch]]]
        ELSE LET pv == IF v_only # <<>> \/ dual # <<>>
                       THEN _trigger_phase(
                                modes_of(SelectSeq(sweepers,
                                    LAMBDA s : s.measure_voltage), "v"), src, 1)
                       ELSE [ops |-> <<>>, source_vals |-> EmptyDict,
                             readings |-> EmptyDict]
                 pi == IF i_only # <<>> \/ dual # <<>>
                       THEN _trigger_phase(
                                modes_of(SelectSeq(sweepers,
                                    LAMBDA s : s.measure_current), "i"), src,
                                IF pv.ops = <<>> THEN 1 ELSE 2)
                       ELSE [ops |-> <<>>, source_vals |-> EmptyDict,
                             readings |-> EmptyDict]
             IN  [ops |-> pv.ops \o pi.ops,
                  source_vals |-> DictSetDefault(pv.source_vals, pi.source_vals),
                  measured_volt |-> pv.readings,
                  measured_curr |-> pi.readings]

\* ---- the per-sweeper loop of lines 248-276

\* the direct voltage reads the loop issues (line 255)
direct_read_ops(sweepers, m) ==
    LET need == SelectSeq(sweepers,
                    LAMBDA s : s.measure_voltage /\ s.channel \notin DOMAIN m.measured_volt)
    IN  [i \in 1..Len(need) |-> [op |-> "read_v", ch |-> need[i].channel]]

\* the entries one sweeper contributes: [indep |-> ..., readings |-> ...]
sweeper_result(sweeper, m, src) ==
    LET ch == sweeper.channel
        source_v == IF ch \in DOMAIN m.source_vals THEN m.source_vals[ch]
                    ELSE IF ch \in DOMAIN src THEN src[ch] ELSE 0
        have_v == ch \in DOMAIN m.measured_volt \/ sweeper.measure_voltage
        measured_v == IF ch \in DOMAIN m.measured_volt THEN m.measured_volt[ch]
                      ELSE Reading(source_v, "v", 1)
        v_used == IF have_v THEN measured_v ELSE source_v
        j == IF ch \in DOMAIN m.measured_curr THEN m.measured_curr[ch] ELSE 0
        curr == IF sweeper.measure_current
                THEN <<[param |-> "curr", ch |-> ch, value |-> j]>> ELSE <<>>
        volt == IF sweeper.independent THEN <<>>
                ELSE <<[param |-> "volt", ch |-> ch, value |-> v_used]>>
        meas == IF sweeper.measure_voltage /\ sweeper.meas_v_param
                THEN <<[param |-> "meas_v", ch |-> ch, value |-> measured_v]>>
                ELSE <<>>
    IN  [indep |-> IF sweeper.independent
                   THEN <<[param |-> "volt", ch |-> ch, value |-> source_v]>>
                   ELSE <<>>,
         readings |-> curr \o volt \o meas]

RECURSIVE collect_results(_, _, _, _)
collect_results(sweepers, m, src, acc) ==
    IF sweepers = <<>> THEN acc
    ELSE LET r == sweeper_result(Head(sweepers), m, src)
         IN  collect_results(Tail(sweepers), m, src,
                [indep |-> acc.indep \o r.indep,
                 readings |-> acc.readings \o r.readings])

\* the arguments of forward_saver.add_result (lines 278-282)
result_row(sweepers, m, src) ==
    LET acc == collect_results(sweepers, m, src, [indep |-> <<>>, readings |-> <<>>])
    IN  acc.indep \o acc.readings \o <<[param |-> "time", ch |-> "", value |-> 0]>>


\* variant without the cap at half of dt_in
_calibrate_visa_overhead_NoCap(dt_in, elapsed_s, sweepers) ==
    IF dt_in = None \/ ~_has_any_measurement(sweepers) THEN 0
    ELSE IF dt_in[1] <= 0 THEN 0
    ELSE Max(0, elapsed_s - dt_in[1])

\* _calibrate_visa_overhead(dt_in, elapsed_s, sweepers); dt_in is an Option
_calibrate_visa_overhead(dt_in, elapsed_s, sweepers) ==
    IF dt_in = None \/ ~_has_any_measurement(sweepers) THEN 0
    ELSE IF dt_in[1] <= 0 THEN 0
    ELSE Min(Max(0, elapsed_s - dt_in[1]), Max(0, dt_in[1] \div 2))

\* next((entry for entry in plan if entry["type"] == "measure"), None)
first_measure(plan) ==
    LET ms == SelectSeq(plan, LAMBDA e : e.type = "measure")
    IN  IF ms = <<>> THEN None ELSE Some(ms[1])

\* whether _prime_initial_measurement measures (it returns None otherwise)
prime_measures(sweepers, plan) ==
    first_measure(plan) # None /\ _has_any_measurement(sweepers)

\* the instrument calls of _prime_initial_measurement (lines 324-328)
prime_ops(sweepers, plan, ratio, split) ==
    LET fm == first_measure(plan)[1]
        src == step_source_values(fm.volt, sweepers)
    IN  _set_ktime(sweepers, fm.dt, ratio, split)
            \o set_v_ops(fm.volt, sweepers)
            \o _measure_step_trigger_readings(sweepers, split, src).ops

\* ------------------------------------------------- the configurations used

ChA == [ChannelConfig("k1.smua", "square", FALSE, TRUE) EXCEPT
            !.v_high = 1000, !.n_low = 1, !.n_high = 1, !.independent = TRUE]
ChB1 == [ChannelConfig("k1.smua", "fixed", TRUE, TRUE) EXCEPT
            !.v_fixed = 1000, !.link_next = TRUE, !.independent = TRUE]
ChB2 == [ChannelConfig("k1.smub", "triangle", FALSE, FALSE) EXCEPT
            !.first_node = 1000, !.dV = 1000]
ChV == [ChannelConfig("k1.smua", "fixed", TRUE, FALSE) EXCEPT !.v_fixed = 1000]
ChD == [ChannelConfig("k1.smua", "fixed", TRUE, TRUE) EXCEPT
            !.v_fixed = 1000, !.link_next = TRUE]
ChI == [ChannelConfig("k1.smub", "fixed", FALSE, TRUE) EXCEPT
            !.v_fixed = 2000, !.link_next = TRUE, !.independent = TRUE]
ChVo == [ChannelConfig("k2.smua", "fixed", TRUE, FALSE) EXCEPT !.v_fixed = 3000]
ChCsvEmpty == ChannelConfig("k1.smub", "csv", FALSE, TRUE)
ChCsvMissing == [ChannelConfig("k1.smua", "csv", FALSE, TRUE) EXCEPT
                    !.csv_path = "gone.csv"]

\* what the GUI can hand to RunWorker(...) and to request_resume(...):
\*   1: one square-wave channel, a sleep after the pass
\*   2: two linked channels (another arity), one of them measuring V and I
\*   3: the channel of 1 with another dt and another delay_ratio
\*   4: a csv channel without a file path, after a channel that measures V
\*   5: a csv channel whose file does not exist
\*   6: three linked channels: one measuring V and I, one I only, one V only
RunConfigs ==
    << [configs |-> <<ChA>>, dt_list |-> <<20>>, repeat |-> 1,
        round_delay |-> 10, delay_ratio |-> 8],
       [configs |-> <<ChB1, ChB2>>, dt_list |-> <<20>>, repeat |-> 1,
        round_delay |-> 0, delay_ratio |-> 8],
       [configs |-> <<ChA>>, dt_list |-> <<40>>, repeat |-> 1,
        round_delay |-> 0, delay_ratio |-> 5],
       [configs |-> <<ChV, ChCsvEmpty>>, dt_list |-> <<20>>, repeat |-> 1,
        round_delay |-> 0, delay_ratio |-> 8],
       [configs |-> <<ChCsvMissing>>, dt_list |-> <<20>>, repeat |-> 1,
        round_delay |-> 10, delay_ratio |-> 8],
       [configs |-> <<ChD, ChI, ChVo>>, dt_list |-> <<20>>, repeat |-> 2,
        round_delay |-> 0, delay_ratio |-> 8],
       [configs |-> <<ChB2>>, dt_list |-> <<20>>, repeat |-> 1,
        round_delay |-> 0, delay_ratio |-> 8] >>

RunConfigIds == 1..Len(RunConfigs)

\* the largest step duration of the configurations
MaxDt ==
    LET dts == UNION {{RunConfigs[c].dt_list[i] : i \in 1..Len(RunConfigs[c].dt_list)} :
                        c \in RunConfigIds}
    IN  CHOOSE d \in dts : \A e \in dts : e <= d
\* the clock advances in steps of 1 ms
TickLen == MinProgrammedStep
\* how long run() stays blocked at the pause gate: shorter than the shortest
\* step duration, one and a half of it, or longer than every deadline
GateDelays == {TickLen, 3 * TickLen, 3 * MaxDt}
\* lateness beyond this is indistinguishable for the deadline logic
SlackFloor == -(2 * MaxDt + TickLen)


vars == <<self, pc, loc, ctl, obs, mon>>

NoEntry == [type |-> "none", dt |-> 0, volt |-> <<>>, seconds |-> 0]
NoArgs == [configs |-> <<>>, dt_list |-> <<>>, repeat |-> 0, round_delay |-> 0]

\* the calls the GUI thread can make on the worker
PauseCall == [kind |-> "pause", c |-> 0]
StopCall == [kind |-> "stop", c |-> 0]
Resume(c) == [kind |-> "resume", c |-> c]

\* the runs explored: the constructor arguments (configuration, ramp_up,
\* ramp_down, csv_path) and the calls the GUI thread makes, in this order, at
\* any moments of the run (it may also stop making calls at any point)
RunTable ==
    << [c |-> 1, ramp_up |-> TRUE, ramp_down |-> TRUE, csv_path |-> "out.csv",
        script |-> <<PauseCall, Resume(1)>>],
       [c |-> 1, ramp_up |-> FALSE, ramp_down |-> TRUE, csv_path |-> "",
        script |-> <<PauseCall, StopCall>>],
       [c |-> 1, ramp_up |-> FALSE, ramp_down |-> FALSE, csv_path |-> "",
        script |-> <<StopCall, PauseCall>>],
       [c |-> 1, ramp_up |-> FALSE, ramp_down |-> FALSE, csv_path |-> "out.csv",
        script |-> <<Resume(2), Resume(1)>>],
       [c |-> 2, ramp_up |-> TRUE, ramp_down |-> FALSE, csv_path |-> "out.csv",
        script |-> <<Resume(3), PauseCall>>],
       [c |-> 2, ramp_up |-> FALSE, ramp_down |-> TRUE, csv_path |-> "",
        script |-> <<PauseCall, Resume(2)>>],
       [c |-> 3, ramp_up |-> FALSE, ramp_down |-> FALSE, csv_path |-> "",
        script |-> <<Resume(1), StopCall>>],
       [c |-> 4, ramp_up |-> TRUE, ramp_down |-> TRUE, csv_path |-> "out.csv",
        script |-> <<Resume(4), StopCall>>],
       [c |-> 5, ramp_up |-> FALSE, ramp_down |-> TRUE, csv_path |-> "",
        script |-> <<PauseCall, StopCall>>],
       [c |-> 6, ramp_up |-> FALSE, ramp_down |-> FALSE, csv_path |-> "",
        script |-> <<PauseCall, Resume(6)>>],
       [c |-> 7, ramp_up |-> FALSE, ramp_down |-> FALSE, csv_path |-> "",
        script |-> <<Resume(1), PauseCall>>],
       [c |-> 1, ramp_up |-> FALSE, ramp_down |-> FALSE, csv_path |-> "",
        script |-> <<PauseCall, Resume(3), StopCall>>],
       [c |-> 1, ramp_up |-> FALSE, ramp_down |-> TRUE, csv_path |-> "",
        script |-> <<PauseCall, Resume(1), PauseCall>>] >>

RunArgs == {RunTable[i] : i \in {j \in 1..Len(RunTable) :
                                    Len(RunTable[j].script) <= MaxCalls}}

\* RunWorker.__init__ (lines 78-104), the thread not yet started
Init ==
    /\ \E a \in RunArgs :
         /\ ctl = [pc |-> "idle", arg |-> 0, calls |-> 0, script |-> a.script]
         /\ self = [configs |-> RunConfigs[a.c].configs,
                    dt_list |-> RunConfigs[a.c].dt_list,
                    delay_ratio |-> RunConfigs[a.c].delay_ratio,
                    repeat |-> RunConfigs[a.c].repeat,
                    round_delay |-> RunConfigs[a.c].round_delay,
                    csv_path |-> a.csv_path, ramp_up |-> a.ramp_up,
                    ramp_down |-> a.ramp_down,
                    pause_event |-> TRUE, rebuild_on_resume |-> FALSE,
                    step_index |-> 0, is_paused |-> FALSE,
                    stop_requested |-> FALSE, last_volt |-> None,
                    visa_overhead |-> 0]
         /\ mon = [c0 |-> a.c, pauseMon |-> "none", stopMon |-> "none",
                   stopCalled |-> FALSE,
                   pausedWrite |-> FALSE, pausedAdvance |-> FALSE,
                   pausedEntries |-> 0, stopEntry |-> FALSE, stopCall |-> FALSE,
                   anchorLost |-> FALSE, lostEntry |-> FALSE, anyInstr |-> FALSE,
                   nMeasureDone |-> 0, timedStep |-> FALSE,
                   lastResume |-> 0, stepCfg |-> 0, lastDone |-> NotFound,
                   lastTiming |-> None, resumedAt |-> FALSE, ramp |-> "none",
                   chTiming |-> [ch \in {"k1.smua", "k1.smub", "k2.smua"} |-> None]]
    /\ pc = "start"
    /\ loc = [sweepers |-> <<>>, plan |-> <<>>, args |-> NoArgs,
              in_loop |-> FALSE, entry |-> NoEntry,
              split_for_dual |-> FALSE, last_split_for_dual |-> FALSE,
              last_programmed_dt |-> None, slack |-> 0, waitLeft |-> 0,
              prime_elapsed |-> 0, row |-> <<>>, exc |-> ""]
    /\ obs = [files |-> DiskFiles,
              signals |-> <<>>, nResults |-> 0, lastResult |-> <<>>,
              nExports |-> 0, ops |-> <<>>]

\* ------------------------------------------------------------- monitoring

\* run() is inside an iteration of the step loop, past the pause gate
PastGate ==
    pc \in {"rebuild_check", "build_sweepers", "reanchor", "clear_rebuild",
            "entry", "sleep_wait", "deadline_wait", "timing", "set_v",
            "trigger", "add_result", "advance"}
    \/ (loc.in_loop /\ pc \in {"bp_configs", "bp_dt_list", "bp_repeat",
                               "bp_round_delay", "bp_call"})

\* what a step of run() does, seen from outside:
\*   instr - it issues an instrument call;  begins - it begins a plan entry;
\*   advances - it changes the step index;  completes - it ends the iteration
Observed(instr, begins, advances, completes) ==
    [mon EXCEPT
        !.pausedWrite = @ \/ (instr /\ mon.pauseMon = "after" /\ ~mon.stopCalled),
        !.pausedAdvance = @ \/ (advances /\ mon.pauseMon = "after" /\ ~mon.stopCalled),
        !.pausedEntries = IF begins /\ mon.pauseMon # "none" /\ ~mon.stopCalled
                          THEN @ + 1 ELSE @,
        !.stopCall = @ \/ (instr /\ mon.stopMon = "after" /\ loc.in_loop),
        !.stopEntry = @ \/ (begins /\ mon.stopMon = "after"),
        !.lostEntry = @ \/ (begins /\ mon.anchorLost),
        !.anyInstr = @ \/ instr,
        !.pauseMon = IF completes /\ @ = "inflight" THEN "after" ELSE @,
        !.stopMon = IF completes /\ @ = "inflight" THEN "after" ELSE @]

Observe(instr, begins, advances, completes) ==
    mon' = Observed(instr, begins, advances, completes)

\* an exception leaves the try block (line 305)
Raise(text, l) ==
    /\ pc' = "except"
    /\ loc' = [l EXCEPT !.exc = text]


\* ------------------------------------------ the control thread (request_*)

Signal(sig, text, by) == [sig |-> sig, text |-> text, by |-> by]

\* threading.Event.set(): a thread blocked in wait() is woken, and stays
\* woken whatever happens to the flag afterwards
EventSet ==
    /\ self' = [self EXCEPT !.pause_event = TRUE]
    /\ pc' = IF pc = "waiting" THEN "woken" ELSE pc

\* the GUI thread is between two calls and the next call of its script is
\* of this kind (the GUI drops the worker once it has finished)
NextCall(kind) ==
    /\ ctl.pc = "idle" /\ pc # "done"
    /\ ctl.calls < Len(ctl.script)
    /\ ctl.script[ctl.calls + 1].kind = kind

\* request_pause, line 108
PauseSetFlag ==
    /\ NextCall("pause")
    /\ ctl' = [ctl EXCEPT !.pc = "p_clear", !.calls = @ + 1]
    /\ self' = [self EXCEPT !.is_paused = TRUE]
    /\ UNCHANGED <<pc, loc, obs, mon>>

\* request_pause, line 109
PauseClear ==
    /\ ctl.pc = "p_clear"
    /\ ctl' = [ctl EXCEPT !.pc = "p_emit"]
    /\ self' = [self EXCEPT !.pause_event = FALSE]
    /\ UNCHANGED <<pc, loc, obs, mon>>

\* request_pause, line 110, and the return
PauseEmit ==
    /\ ctl.pc = "p_emit"
    /\ ctl' = [ctl EXCEPT !.pc = "idle"]
    /\ obs' = [obs EXCEPT !.signals = Append(@, Signal("status", "Paused", "control"))]
    /\ mon' = [mon EXCEPT
                !.pauseMon = IF PastGate \/ pc = "woken" THEN "inflight" ELSE "after",
                !.pausedEntries = 0]
    /\ UNCHANGED <<self, pc, loc>>

\* request_resume(configs, dt_list, repeat, round_delay, delay_ratio), line 120
ResumeCall ==
    /\ NextCall("resume")
    /\ LET c == ctl.script[ctl.calls + 1].c
       IN  /\ ctl' = [ctl EXCEPT !.pc = "r_dt_list", !.arg = c, !.calls = @ + 1]
           /\ self' = [self EXCEPT !.configs = RunConfigs[c].configs]
    /\ mon' = [mon EXCEPT !.pauseMon = "none", !.pausedEntries = 0,
                          !.lastResume = 0, !.resumedAt = mon.nMeasureDone > 0]
    /\ UNCHANGED <<pc, loc, obs>>

\* request_resume, lines 121-124, one assignment at a time
ResumeAssign ==
    /\ ctl.pc \in {"r_dt_list", "r_repeat", "r_round_delay", "r_delay_ratio"}
    /\ LET a == RunConfigs[ctl.arg]
       IN  CASE ctl.pc = "r_dt_list" ->
                    /\ self' = [self EXCEPT !.dt_list = a.dt_list]
                    /\ ctl' = [ctl EXCEPT !.pc = "r_repeat"]
             [] ctl.pc = "r_repeat" ->
                    /\ self' = [self EXCEPT !.repeat = a.repeat]
                    /\ ctl' = [ctl EXCEPT !.pc = "r_round_delay"]
             [] ctl.pc = "r_round_delay" ->
                    /\ self' = [self EXCEPT !.round_delay = a.round_delay]
                    /\ ctl' = [ctl EXCEPT !.pc = "r_delay_ratio"]
             [] ctl.pc = "r_delay_ratio" ->
                    /\ self' = [self EXCEPT !.delay_ratio = a.delay_ratio]
                    /\ ctl' = [ctl EXCEPT !.pc = "r_rebuild"]
    /\ UNCHANGED <<pc, loc, obs, mon>>

\* request_resume, line 125
ResumeSetRebuild ==
    /\ ctl.pc = "r_rebuild"
    /\ ctl' = [ctl EXCEPT !.pc = "r_unpause"]
    /\ self' = [self EXCEPT !.rebuild_on_resume = TRUE]
    /\ UNCHANGED <<pc, loc, obs, mon>>

\* request_resume, line 126
ResumeUnpause ==
    /\ ctl.pc = "r_unpause"
    /\ ctl' = [ctl EXCEPT !.pc = "r_set"]
    /\ self' = [self EXCEPT !.is_paused = FALSE]
    /\ UNCHANGED <<pc, loc, obs, mon>>

\* variant of line 127 that leaves the event as it is
ResumeSetEvent_NoSet ==
    /\ ctl.pc = "r_set"
    /\ ctl' = [ctl EXCEPT !.pc = "r_emit"]
    /\ UNCHANGED <<self, pc, loc, obs, mon>>

\* request_resume, line 127
ResumeSetEvent ==
    /\ ctl.pc = "r_set"
    /\ ctl' = [ctl EXCEPT !.pc = "r_emit"]
    /\ EventSet
    /\ UNCHANGED <<loc, obs, mon>>

\* request_resume, line 128, and the return
ResumeEmit ==
    /\ ctl.pc = "r_emit"
    /\ ctl' = [ctl EXCEPT !.pc = "idle", !.arg = 0]
    /\ obs' = [obs EXCEPT !.signals = Append(@, Signal("status", "Running", "control"))]
    /\ mon' = [mon EXCEPT !.lastResume = ctl.arg]
    /\ UNCHANGED <<self, pc, loc>>

\* request_stop, line 131
StopSetFlag ==
    /\ NextCall("stop")
    /\ ctl' = [ctl EXCEPT !.pc = "s_set", !.calls = @ + 1]
    /\ self' = [self EXCEPT !.stop_requested = TRUE]
    /\ mon' = [mon EXCEPT !.stopCalled = TRUE]
    /\ UNCHANGED <<pc, loc, obs>>

\* request_stop, line 132, and the return
StopSetEvent ==
    /\ ctl.pc = "s_set"
    /\ ctl' = [ctl EXCEPT !.pc = "idle"]
    /\ EventSet
    /\ mon' = [mon EXCEPT
                !.stopMon = IF @ # "none" THEN @
                            ELSE IF PastGate \/ pc \in {"gate", "woken"}
                                 THEN "inflight" ELSE "after"]
    /\ UNCHANGED <<loc, obs>>

\* -------------------------------------------------- the worker: RunWorker.run

Fault == "instrument error"
DbFault == "database error"

\* lines 136-141: status, database and experiment
RunStart ==
    /\ pc = "start"
    /\ obs' = [obs EXCEPT !.signals = Append(@, Signal("status", "Running", "run"))]
    /\ \/ pc' = "setup" /\ UNCHANGED loc
       \/ Raise(DbFault, loc)
    /\ Observe(FALSE, FALSE, FALSE, FALSE)
    /\ UNCHANGED <<self, ctl>>

\* variant of lines 143-163 in which the channels are addressed before their
\* waveforms are built
Setup_ChannelsFirst ==
    /\ pc = "setup"
    /\ IF build_error(self.configs) # ""
       THEN /\ Raise(build_error(self.configs), loc)
            /\ Observe(TRUE, FALSE, FALSE, FALSE)
       ELSE LET sw == build_sweepers(self.configs)
            IN  \/ /\ pc' = "bp_configs"
                   /\ loc' = [loc EXCEPT !.sweepers = sw]
                   /\ Observe(sw # <<>>, FALSE, FALSE, FALSE)
                \/ /\ Raise(DbFault, [loc EXCEPT !.sweepers = sw])
                   /\ Observe(FALSE, FALSE, FALSE, FALSE)
                \/ /\ sw # <<>>
                   /\ Raise(Fault, [loc EXCEPT !.sweepers = sw])
                   /\ Observe(TRUE, FALSE, FALSE, FALSE)
    /\ UNCHANGED <<self, ctl, obs>>

\* lines 143-163: sweepers, registers, ramp to start, trigger parameters
Setup ==
    /\ pc = "setup"
    /\ IF build_error(self.configs) # ""
       THEN /\ Raise(build_error(self.configs), loc)
            /\ Observe(FALSE, FALSE, FALSE, FALSE)
       ELSE LET sw == build_sweepers(self.configs)
            IN  \/ /\ pc' = "bp_configs"
                   /\ loc' = [loc EXCEPT !.sweepers = sw]
                   /\ Observe(sw # <<>>, FALSE, FALSE, FALSE)
                \/ /\ Raise(DbFault, [loc EXCEPT !.sweepers = sw])
                   /\ Observe(FALSE, FALSE, FALSE, FALSE)
                \/ /\ sw # <<>>
                   /\ Raise(Fault, [loc EXCEPT !.sweepers = sw])
                   /\ Observe(TRUE, FALSE, FALSE, FALSE)
    /\ UNCHANGED <<self, ctl, obs>>

\* the arguments of build_plan(self.configs, self.dt_list, self.repeat,
\* self.round_delay), read one attribute at a time (lines 165 and 184-186)
BuildPlanArgs ==
    /\ pc \in {"bp_configs", "bp_dt_list", "bp_repeat", "bp_round_delay"}
    /\ CASE pc = "bp_configs" ->
                /\ loc' = [loc EXCEPT !.args.configs = self.configs]
                /\ pc' = "bp_dt_list"
         [] pc = "bp_dt_list" ->
                /\ loc' = [loc EXCEPT !.args.dt_list = self.dt_list]
                /\ pc' = "bp_repeat"
         [] pc = "bp_repeat" ->
                /\ loc' = [loc EXCEPT !.args.repeat = self.repeat]
                /\ pc' = "bp_round_delay"
         [] pc = "bp_round_delay" ->
                /\ loc' = [loc EXCEPT !.args.round_delay = self.round_delay]
                /\ pc' = "bp_call"
    /\ Observe(FALSE, FALSE, FALSE, FALSE)
    /\ UNCHANGED <<self, ctl, obs>>

\* the call of build_plan (lines 165 and 184-186)
BuildPlanCall ==
    /\ pc = "bp_call"
    /\ LET a == loc.args
       IN  IF build_error(a.configs) # ""
           THEN Raise(build_error(a.configs), [loc EXCEPT !.args = NoArgs])
           ELSE /\ loc' = [loc EXCEPT
                            !.plan = build_plan(a.configs, a.dt_list, a.repeat,
                                                a.round_delay),
                            !.args = NoArgs]
                /\ pc' = IF loc.in_loop THEN "reanchor" ELSE "prime"
    /\ Observe(FALSE, FALSE, FALSE, FALSE)
    /\ UNCHANGED <<self, ctl, obs>>

\* lines 166-168: the priming measurement is issued
PrimeStart ==
    /\ pc = "prime"
    /\ LET split == _has_dual_measurement(loc.sweepers)
           l == [loc EXCEPT !.split_for_dual = split, !.prime_elapsed = 0]
           calls == IF prime_measures(loc.sweepers, loc.plan)
                    THEN prime_ops(loc.sweepers, loc.plan, self.delay_ratio, split)
                    ELSE <<>>
       IN  \/ /\ pc' = "priming"
              /\ loc' = l
              /\ obs' = [obs EXCEPT !.ops = calls]
              /\ mon' = [Observed(calls # <<>>, FALSE, FALSE, FALSE)
                            EXCEPT !.lastTiming =
                                LET w == SelectSeq(calls, LAMBDA o : o.op = "timing")
                                IN  IF w = <<>> THEN @ ELSE Some(w[Len(w)]),
                                   !.chTiming = [ch \in DOMAIN @ |->
                                LET w == SelectSeq(calls, LAMBDA o :
                                            o.op = "timing" /\ o.ch = ch)
                                IN  IF w = <<>> THEN @[ch] ELSE Some(w[Len(w)])]]
           \/ /\ calls # <<>>
              /\ \E k \in 0..(Len(calls) - 1) :
                    obs' = [obs EXCEPT !.ops = SubSeq(calls, 1, k)]
              /\ Raise(Fault, l)
              /\ Observe(TRUE, FALSE, FALSE, FALSE)
    /\ UNCHANGED <<self, ctl>>

\* lines 169-174: overhead calibration, the first deadline
PrimeEnd ==
    /\ pc = "priming"
    /\ LET last_dt == IF prime_measures(loc.sweepers, loc.plan)
                      THEN Some(first_measure(loc.plan)[1].dt) ELSE None
       IN  /\ self' = [self EXCEPT !.visa_overhead =
                        _calibrate_visa_overhead(last_dt, loc.prime_elapsed,
                                                 loc.sweepers)]
           /\ loc' = [loc EXCEPT !.last_split_for_dual = loc.split_for_dual,
                                 !.last_programmed_dt = last_dt,
                                 !.slack = 0, !.prime_elapsed = 0,
                                 !.in_loop = TRUE]
    /\ pc' = "loop"
    /\ Observe(FALSE, FALSE, FALSE, FALSE)
    /\ UNCHANGED <<ctl, obs>>

\* lines 177-179: the loop condition and the stop check
LoopTop ==
    /\ pc = "loop"
    /\ pc' = IF self.step_index < Len(loc.plan) /\ ~self.stop_requested
             THEN "gate" ELSE "after_loop"
    /\ Observe(FALSE, FALSE, FALSE, FALSE)
    /\ UNCHANGED <<self, loc, ctl, obs>>

\* variant of line 180 that does not wait for the event
Gate_NoWait ==
    /\ pc \in {"gate", "woken"}
    /\ pc' = "rebuild_check"
    /\ mon' = [Observed(FALSE, FALSE, FALSE, FALSE)
                  EXCEPT !.stepCfg = mon.lastResume]
    /\ UNCHANGED <<self, loc, ctl, obs>>

\* line 180: self._pause_event.wait()
Gate ==
    /\ pc \in {"gate", "woken"}
    /\ pc' = IF pc = "woken" \/ self.pause_event THEN "rebuild_check" ELSE "waiting"
    /\ mon' = [Observed(FALSE, FALSE, FALSE, FALSE)
                  EXCEPT !.stepCfg = IF pc = "woken" \/ self.pause_event
                                     THEN mon.lastResume ELSE @]
    /\ UNCHANGED <<self, loc, ctl, obs>>

\* line 182
RebuildCheck ==
    /\ pc = "rebuild_check"
    /\ pc' = IF self.rebuild_on_resume THEN "build_sweepers" ELSE "entry"
    /\ Observe(FALSE, FALSE, FALSE, FALSE)
    /\ UNCHANGED <<self, loc, ctl, obs>>

\* line 183
BuildSweepers ==
    /\ pc = "build_sweepers"
    /\ IF build_error(self.configs) # ""
       THEN Raise(build_error(self.configs), loc)
       ELSE /\ loc' = [loc EXCEPT !.sweepers = build_sweepers(self.configs)]
            /\ pc' = "bp_configs"
    /\ Observe(FALSE, FALSE, FALSE, FALSE)
    /\ UNCHANGED <<self, ctl, obs>>

\* variant of lines 187-192 without the check of lines 191-192
Reanchor_NoBoundCheck ==
    /\ pc = "reanchor"
    /\ LET resume_idx == find_resume_index(loc.plan, self.last_volt)
           idx == IF self.last_volt # None /\ resume_idx # NotFound
                  THEN resume_idx ELSE self.step_index
       IN  /\ self' = [self EXCEPT !.step_index = idx]
           /\ pc' = "clear_rebuild"
           /\ mon' = [mon EXCEPT
                !.pausedAdvance = @ \/ (idx # self.step_index /\ mon.pauseMon = "after"
                                            /\ ~mon.stopCalled),
                !.anchorLost = @ \/ (self.last_volt # None /\ resume_idx = NotFound)]
    /\ UNCHANGED <<loc, ctl, obs>>

\* lines 187-192: re-anchor the step index in the rebuilt plan
Reanchor ==
    /\ pc = "reanchor"
    /\ LET resume_idx == find_resume_index(loc.plan, self.last_volt)
           idx == IF self.last_volt # None /\ resume_idx # NotFound
                  THEN resume_idx ELSE self.step_index
           brk == idx >= Len(loc.plan)
       IN  /\ self' = [self EXCEPT !.step_index = idx]
           /\ pc' = IF brk THEN "after_loop" ELSE "clear_rebuild"
           /\ mon' = [mon EXCEPT
                !.pausedAdvance = @ \/ (idx # self.step_index /\ mon.pauseMon = "after"
                                            /\ ~mon.stopCalled),
                !.anchorLost = @ \/ (self.last_volt # None /\ resume_idx = NotFound),
                !.pauseMon = IF brk /\ @ = "inflight" THEN "after" ELSE @,
                !.stopMon = IF brk /\ @ = "inflight" THEN "after" ELSE @]
    /\ UNCHANGED <<loc, ctl, obs>>

\* line 193
ClearRebuild ==
    /\ pc = "clear_rebuild"
    /\ self' = [self EXCEPT !.rebuild_on_resume = FALSE]
    /\ pc' = "entry"
    /\ Observe(FALSE, FALSE, FALSE, FALSE)
    /\ UNCHANGED <<loc, ctl, obs>>


\* lines 195-207: read the entry; a sleep entry checks the stop flag, a
\* measure entry checks the deadline
ReadEntry ==
    /\ pc = "entry"
    /\ IF self.step_index >= Len(loc.plan)
       THEN /\ Raise("list index out of range", loc)
            /\ Observe(FALSE, FALSE, FALSE, FALSE)
            /\ UNCHANGED obs
       ELSE LET entry == loc.plan[self.step_index + 1]
            IN  IF entry.type = "sleep"
                THEN IF self.stop_requested
                     THEN /\ pc' = "after_loop"
                          /\ loc' = [loc EXCEPT !.entry = entry]
                          /\ Observe(FALSE, FALSE, FALSE, TRUE)
                          /\ UNCHANGED obs
                     ELSE /\ pc' = "sleep_wait"
                          /\ loc' = [loc EXCEPT !.entry = entry,
                                                !.waitLeft = entry.seconds]
                          /\ Observe(FALSE, TRUE, FALSE, FALSE)
                          /\ UNCHANGED obs
                ELSE /\ pc' = IF loc.slack > 0 THEN "deadline_wait" ELSE "timing"
                     /\ loc' = [loc EXCEPT !.entry = entry,
                                           !.waitLeft = Max(0, loc.slack)]
                     /\ obs' = [obs EXCEPT !.ops = <<>>]
                     /\ mon' = [Observed(FALSE, TRUE, FALSE, FALSE)
                                    EXCEPT !.timedStep = FALSE]
    /\ UNCHANGED <<self, ctl>>

\* variant of lines 199-202 in which a Sleep entry records a result
SleepDone_AddsResult ==
    /\ pc = "sleep_wait"
    /\ loc.waitLeft = 0
    /\ loc' = [loc EXCEPT !.slack = 0]
    /\ self' = [self EXCEPT !.step_index = @ + 1]
    /\ pc' = "loop"
    /\ obs' = [obs EXCEPT !.nResults = @ + 1]
    /\ Observe(FALSE, FALSE, TRUE, TRUE)
    /\ UNCHANGED ctl

\* variant of lines 199-202 in which a Sleep entry forgets the timing last
\* programmed
SleepDone_ResetsTiming ==
    /\ pc = "sleep_wait"
    /\ loc.waitLeft = 0
    /\ loc' = [loc EXCEPT !.slack = 0, !.last_programmed_dt = None]
    /\ self' = [self EXCEPT !.step_index = @ + 1]
    /\ pc' = "loop"
    /\ Observe(FALSE, FALSE, TRUE, TRUE)
    /\ UNCHANGED <<ctl, obs>>

\* lines 199-202: threading.Event().wait(seconds) has timed out
SleepDone ==
    /\ pc = "sleep_wait"
    /\ loc.waitLeft = 0
    /\ loc' = [loc EXCEPT !.slack = 0]
    /\ self' = [self EXCEPT !.step_index = @ + 1]
    /\ pc' = "loop"
    /\ Observe(FALSE, FALSE, TRUE, TRUE)
    /\ UNCHANGED <<ctl, obs>>

\* line 207: threading.Event().wait(next_measure_deadline - now) has timed out
DeadlineDone ==
    /\ pc = "deadline_wait"
    /\ loc.waitLeft = 0
    /\ pc' = "timing"
    /\ Observe(FALSE, FALSE, FALSE, FALSE)
    /\ UNCHANGED <<self, loc, ctl, obs>>

\* the step duration programmed for a step (lines 211-215)
programmed_dt_of(sweepers, dt_in, overhead) ==
    IF _has_any_measurement(sweepers)
    THEN Max(MinProgrammedStep, dt_in - overhead)
    ELSE dt_in

\* variant of lines 216-221 without the comparison of the two-phase mode
needs_reprogram_IgnoresSplit(programmed_dt, last_programmed_dt, split, last_split) ==
    \/ last_programmed_dt = None
    \/ Abs(programmed_dt - last_programmed_dt[1]) > ReprogramThreshold

\* the condition of lines 216-221
needs_reprogram(programmed_dt, last_programmed_dt, split, last_split) ==
    \/ last_programmed_dt = None
    \/ Abs(programmed_dt - last_programmed_dt[1]) > ReprogramThreshold
    \/ split # last_split

\* lines 209-229: program the timing when it changed
ProgramTiming ==
    /\ pc = "timing"
    /\ LET split == _has_dual_measurement(loc.sweepers)
           programmed_dt == programmed_dt_of(loc.sweepers, loc.entry.dt,
                                             self.visa_overhead)
           need == needs_reprogram(programmed_dt, loc.last_programmed_dt,
                                   split, loc.last_split_for_dual)
           calls == IF need
                    THEN _set_ktime(loc.sweepers, programmed_dt,
                                    self.delay_ratio, split)
                    ELSE <<>>
       IN  \/ /\ pc' = "set_v"
              /\ loc' = [loc EXCEPT
                    !.split_for_dual = split,
                    !.last_programmed_dt = IF need THEN Some(programmed_dt) ELSE @,
                    !.last_split_for_dual = IF need THEN split ELSE @]
              /\ obs' = [obs EXCEPT !.ops = @ \o calls]
              /\ mon' = [Observed(calls # <<>>, FALSE, FALSE, FALSE)
                            EXCEPT !.timedStep = need,
                                   !.lastTiming = IF calls = <<>> THEN @
                                                  ELSE Some(calls[Len(calls)]),
                                   !.chTiming = [ch \in DOMAIN @ |->
                                LET w == SelectSeq(calls, LAMBDA o : o.ch = ch)
                                IN  IF w = <<>> THEN @[ch] ELSE Some(w[Len(w)])]]
           \/ /\ calls # <<>>
              /\ \E k \in 0..(Len(calls) - 1) :
                    obs' = [obs EXCEPT !.ops = @ \o SubSeq(calls, 1, k)]
              /\ Raise(Fault, [loc EXCEPT !.split_for_dual = split])
              /\ mon' = [Observed(TRUE, FALSE, FALSE, FALSE)
                            EXCEPT !.timedStep = need]
    /\ UNCHANGED <<self, ctl>>

\* lines 231-232: set_v on zip(entry["volt"], sweepers)
SetVoltages ==
    /\ pc = "set_v"
    /\ LET calls == set_v_ops(loc.entry.volt, loc.sweepers)
       IN  \/ /\ pc' = "trigger"
              /\ loc' = loc
              /\ obs' = [obs EXCEPT !.ops = @ \o calls]
              /\ Observe(calls # <<>>, FALSE, FALSE, FALSE)
           \/ /\ calls # <<>>
              /\ \E k \in 0..(Len(calls) - 1) :
                    obs' = [obs EXCEPT !.ops = @ \o SubSeq(calls, 1, k)]
              /\ Raise(Fault, loc)
              /\ Observe(TRUE, FALSE, FALSE, FALSE)
    /\ UNCHANGED <<self, ctl>>

\* lines 234-276: the trigger phases, the direct reads, the result row
MeasureReadings ==
    /\ pc = "trigger"
    /\ LET src == step_source_values(loc.entry.volt, loc.sweepers)
           m == _measure_step_trigger_readings(loc.sweepers, loc.split_for_dual, src)
           calls == m.ops \o direct_read_ops(loc.sweepers, m)
       IN  \/ /\ pc' = "add_result"
              /\ loc' = [loc EXCEPT !.row = result_row(loc.sweepers, m, src)]
              /\ obs' = [obs EXCEPT !.ops = @ \o calls]
              /\ Observe(calls # <<>>, FALSE, FALSE, FALSE)
           \/ /\ calls # <<>>
              /\ \E k \in 0..(Len(calls) - 1) :
                    obs' = [obs EXCEPT !.ops = @ \o SubSeq(calls, 1, k)]
              /\ Raise(Fault, loc)
              /\ Observe(TRUE, FALSE, FALSE, FALSE)
    /\ UNCHANGED <<self, ctl>>

\* lines 278-282: forward_saver.add_result
AddResult ==
    /\ pc = "add_result"
    /\ \/ /\ pc' = "advance"
          /\ loc' = [loc EXCEPT !.row = <<>>]
          /\ obs' = [obs EXCEPT !.nResults = @ + 1, !.lastResult = loc.row,
                                !.ops = Append(@, [op |-> "add_result"])]
       \/ /\ Raise(DbFault, loc)
          /\ UNCHANGED obs
    /\ Observe(FALSE, FALSE, FALSE, FALSE)
    /\ UNCHANGED <<self, ctl>>

\* next_measure_deadline after lines 285-287, relative to the clock
next_slack(slack, dt_in) ==
    IF -(slack + dt_in) > dt_in THEN 0 ELSE slack + dt_in

\* lines 283-291: the deadline, the last applied voltages, the step index,
\* the stop check
Advance ==
    /\ pc = "advance"
    /\ loc' = [loc EXCEPT !.slack = next_slack(loc.slack, loc.entry.dt)]
    /\ self' = [self EXCEPT !.last_volt = Some(loc.entry.volt),
                            !.step_index = @ + 1]
    /\ obs' = [obs EXCEPT !.ops = @ \o <<[op |-> "last_volt"], [op |-> "index"]>>]
    /\ pc' = IF self.stop_requested THEN "after_loop" ELSE "loop"
    /\ mon' = [Observed(FALSE, FALSE, TRUE, TRUE)
                  EXCEPT !.nMeasureDone = @ + 1, !.lastDone = self.step_index]
    /\ UNCHANGED ctl

\* lines 293-298: the CSV export
Export ==
    /\ pc = "after_loop"
    /\ IF self.csv_path # ""
       THEN \/ /\ pc' = "ramp_down"
               /\ obs' = [obs EXCEPT !.nExports = @ + 1]
               /\ UNCHANGED loc
            \/ /\ Raise(DbFault, loc)
               /\ UNCHANGED obs
       ELSE /\ pc' = "ramp_down"
            /\ UNCHANGED <<loc, obs>>
    /\ Observe(FALSE, FALSE, FALSE, FALSE)
    /\ UNCHANGED <<self, ctl>>

\* lines 300-302: utilities.ramp_voltage(channel, 0) on every sweeper
RampDown ==
    /\ pc = "ramp_down"
    /\ IF self.ramp_down /\ loc.sweepers # <<>>
       THEN \/ /\ pc' = "finish" /\ UNCHANGED loc
               /\ mon' = [Observed(TRUE, FALSE, FALSE, FALSE) EXCEPT !.ramp = "done"]
            \/ /\ Raise(Fault, loc)
               /\ mon' = [Observed(TRUE, FALSE, FALSE, FALSE) EXCEPT !.ramp = "begun"]
       ELSE /\ pc' = "finish"
            /\ UNCHANGED loc
            /\ Observe(FALSE, FALSE, FALSE, FALSE)
    /\ UNCHANGED <<self, ctl, obs>>

\* line 304
Finish ==
    /\ pc = "finish"
    /\ pc' = "done"
    /\ obs' = [obs EXCEPT !.signals = Append(@, Signal("finished", "", "run"))]
    /\ UNCHANGED <<self, loc, ctl, mon>>

\* variant of lines 305-307 without the finished.emit() of line 307
Except_NoFinished ==
    /\ pc = "except"
    /\ pc' = "done"
    /\ obs' = [obs EXCEPT !.signals = Append(@, Signal("error", loc.exc, "run"))]
    /\ UNCHANGED <<self, loc, ctl, mon>>

\* variant of lines 305-307 that exports the data before the signals
Except_Exports ==
    /\ pc = "except"
    /\ pc' = "done"
    /\ obs' = [obs EXCEPT !.nExports = @ + 1, !.signals =
                @ \o <<Signal("error", loc.exc, "run"), Signal("finished", "", "run")>>]
    /\ UNCHANGED <<self, loc, ctl, mon>>

\* lines 305-307
Except ==
    /\ pc = "except"
    /\ pc' = "done"
    /\ obs' = [obs EXCEPT !.signals =
                @ \o <<Signal("error", loc.exc, "run"), Signal("finished", "", "run")>>]
    /\ UNCHANGED <<self, loc, ctl, mon>>

\* the wall clock advances while run() is blocked: by one tick in a wait or
\* in the instrument (priming; a trigger, which ends at the latest one step
\* duration after the deadline); at the pause gate by one of GateDelays, until
\* the deadline has passed
Tick ==
    /\ \/ /\ pc = "priming"
          /\ loc.prime_elapsed < MaxPrimeTicks * TickLen
          /\ loc' = [loc EXCEPT !.prime_elapsed = @ + TickLen]
       \/ /\ pc \in {"sleep_wait", "deadline_wait"}
          /\ loc.waitLeft > 0
          /\ loc' = [loc EXCEPT !.waitLeft = Max(0, @ - TickLen),
                                !.slack = Max(SlackFloor, @ - TickLen)]
       \/ /\ pc = "waiting"
          /\ loc.slack > -TickLen
          /\ \E d \in GateDelays :
                loc' = [loc EXCEPT !.slack = Max(SlackFloor, @ - d)]
       \/ /\ pc = "trigger"
          /\ loc.slack > -loc.entry.dt
          /\ loc' = [loc EXCEPT !.slack = Max(SlackFloor, @ - TickLen)]
    /\ UNCHANGED <<self, pc, ctl, obs, mon>>

Control ==
    \/ PauseSetFlag \/ PauseClear \/ PauseEmit
    \/ ResumeCall \/ ResumeAssign \/ ResumeSetRebuild \/ ResumeUnpause
    \/ ResumeSetEvent \/ ResumeEmit
    \/ StopSetFlag \/ StopSetEvent

Worker ==
    \/ RunStart \/ Setup \/ BuildPlanArgs \/ BuildPlanCall \/ PrimeStart
    \/ PrimeEnd \/ LoopTop \/ Gate \/ RebuildCheck \/ BuildSweepers
    \/ Reanchor \/ ClearRebuild \/ ReadEntry \/ SleepDone \/ DeadlineDone
    \/ ProgramTiming \/ SetVoltages \/ MeasureReadings \/ AddResult
    \/ Advance \/ Export \/ RampDown \/ Finish \/ Except

Next == Control \/ Worker \/ Tick

Spec == Init /\ [][Next]_vars


\* ---------------------------------------------------------- the properties

\* the signals run() itself emits, in order
RunSignals == SelectSeq(obs.signals, LAMBDA x : x.by = "run")

\* the plan and the sweepers of each configuration (none for a
\* configuration whose waveforms cannot be built)
PlanOf ==
    [c \in RunConfigIds |->
        IF build_error(RunConfigs[c].configs) # "" THEN <<>>
        ELSE build_plan(RunConfigs[c].configs, RunConfigs[c].dt_list,
                        RunConfigs[c].repeat, RunConfigs[c].round_delay)]
SweepersOf ==
    [c \in RunConfigIds |->
        IF build_error(RunConfigs[c].configs) # "" THEN <<>>
        ELSE build_sweepers(RunConfigs[c].configs)]

\* run() is blocked and only a control call can unblock it
WorkerCanProceed == ENABLED Worker \/ pc \in {"sleep_wait", "deadline_wait"}

\* C1 as stated: in a run where stop is never requested, once request_pause
\* has returned and the entry in flight (if any) is done, run() neither
\* changes the step index nor issues an instrument call until request_resume
\* is called.  (Fails: a pause requested during set-up does not hold back the
\* set-up and priming calls, and a pause requested during the last entry does
\* not hold back the ramp to zero.)
C1_AsClaimed == ~mon.pausedWrite /\ ~mon.pausedAdvance

\* C1 amended: in a run where stop is never requested, after request_pause
\* has returned run() begins at most one more plan entry, and once that entry
\* is done it stays outside the step loop body (blocked at the pause gate, or
\* before or after the loop) until request_resume is called.
C1_PauseHoldsNextEntry ==
    ~mon.stopCalled =>
        /\ mon.pausedEntries <= 1
        /\ ~mon.pausedAdvance
        /\ mon.pauseMon = "after" => (~PastGate /\ pc # "woken")

C1_Witness ==
    /\ ~mon.stopCalled /\ mon.pauseMon = "after" /\ mon.pausedEntries = 1
    /\ pc = "waiting" /\ self.step_index > 0

\* C2: after request_stop has returned, run() begins no new plan entry (an
\* entry is in flight only if run() was past the pause gate when it returned).
C2_AsClaimed == ~mon.stopEntry

\* C3: after request_stop has returned, run() is never blocked for good: it
\* is done, or it can take a step, or it is in a timed wait.
C3_AsClaimed == mon.stopMon # "none" => (pc = "done" \/ WorkerCanProceed)

\* C4: after request_stop has returned and the entry in flight is done, run()
\* issues no instrument call (calls of the set-up are not counted).
C4_AsClaimed == ~mon.stopCall

\* C5: once request_stop has returned, a Sleep-entry wait or deadline wait is
\* over: run() can leave it although time is left.
C5_AsClaimed ==
    (mon.stopMon # "none" /\ pc \in {"sleep_wait", "deadline_wait"})
        => ENABLED (SleepDone \/ DeadlineDone)

\* C6: run() emits finished exactly once, as its last signal, when it ends;
\* error at most once, only after an exception, with the exception text and
\* right before finished; every result added is still there at the end.
C6_SignalsOfARun ==
    LET rs == RunSignals
        fin == {i \in 1..Len(rs) : rs[i].sig = "finished"}
        err == {i \in 1..Len(rs) : rs[i].sig = "error"}
    IN  /\ Cardinality(fin) <= 1
        /\ Cardinality(err) <= 1
        /\ (pc = "done") <=> (fin # {})
        /\ fin \subseteq {Len(rs)}
        /\ \A e \in err : /\ loc.exc # ""
                          /\ rs[e].text = loc.exc
                          /\ e + 1 \in fin
        /\ (pc = "done" /\ loc.exc # "") => err # {}
        /\ pc = "done" => obs.nResults = mon.nMeasureDone

C6_Witness ==
    /\ pc = "done" /\ loc.exc = Fault /\ obs.nResults = 2
    /\ Len(RunSignals) = 3

\* C7: once find_resume_index has returned not-found on a resume, run()
\* begins no further plan entry.
C7_AsClaimed == ~mon.lostEntry

\* C8: while a Measure step is carried out, its sweepers and its plan entry
\* (and its delay_ratio, when the step programs the timing) are those of one
\* configuration.
C8_AsClaimed ==
    pc \in {"set_v", "trigger", "add_result", "advance"} =>
        \E c \in RunConfigIds :
            /\ loc.sweepers = SweepersOf[c]
            /\ \E i \in 1..Len(PlanOf[c]) : PlanOf[c][i] = loc.entry
            /\ \A k \in 1..Len(obs.ops) :
                    obs.ops[k].op = "timing" =>
                        obs.ops[k].delay_ratio = RunConfigs[c].delay_ratio

\* C9: the number of add_result calls is the number of Measure entries
\* completed (plus the entry in flight between its add_result and its index
\* increment); the export is made at most once, after the step loop.
C9_ResultsAndExport ==
    /\ obs.nResults = mon.nMeasureDone + (IF pc = "advance" THEN 1 ELSE 0)
    /\ obs.nExports <= 1
    /\ obs.nExports = 1 => pc \in {"ramp_down", "finish", "done", "except"}

C9_Witness ==
    /\ pc = "done" /\ loc.exc = "" /\ obs.nResults = 3 /\ obs.nExports = 1
    /\ self.step_index = 4

\* the operations of a Measure step so far, by kind
StepTiming == SelectSeq(obs.ops, LAMBDA o : o.op = "timing")
StepSetV == SelectSeq(obs.ops, LAMBDA o : o.op = "set_v")
StepTriggers == SelectSeq(obs.ops, LAMBDA o : o.op \in {"trigger", "read_v"})
StepTail == SelectSeq(obs.ops, LAMBDA o : o.op \in {"add_result", "last_volt", "index"})

\* set_v on every channel of the sweepers, with the voltage of the entry
SetVOnEveryChannel ==
    /\ Len(StepSetV) = Len(loc.sweepers)
    /\ Len(loc.entry.volt) >= Len(loc.sweepers)
    /\ \A i \in 1..Len(loc.sweepers) :
            /\ StepSetV[i].ch = loc.sweepers[i].channel
            /\ StepSetV[i].v = loc.entry.volt[i]

\* the trigger phases and direct reads of the step, as the sweepers require
TriggersAsRequired ==
    LET src == step_source_values(loc.entry.volt, loc.sweepers)
        m == _measure_step_trigger_readings(loc.sweepers,
                _has_dual_measurement(loc.sweepers), src)
    IN  StepTriggers = m.ops \o direct_read_ops(loc.sweepers, m)

\* C10: a Measure step runs timing (when needed), set_v on every channel, the
\* trigger phases, add_result, last applied voltages, index, in this order
\* and with nothing skipped, whatever pause requests arrive meanwhile.
C10_AsClaimed ==
    LET timing == IF mon.timedStep THEN Len(loc.sweepers) ELSE 0
        done == pc \in {"loop", "gate", "waiting", "woken", "rebuild_check"}
                    /\ loc.entry.type = "measure" /\ obs.ops # <<>>
                    /\ obs.ops[Len(obs.ops)].op = "index"
    IN  /\ obs.ops = StepTiming \o StepSetV \o StepTriggers \o StepTail
           \/ pc \in {"priming", "except", "done"}
        /\ pc \in {"set_v", "trigger", "add_result", "advance"} \/ done =>
                /\ Len(StepTiming) = timing
                /\ \A i \in 1..Len(StepTiming) :
                        StepTiming[i].ch = loc.sweepers[i].channel
        /\ pc \in {"trigger", "add_result", "advance"} \/ done => SetVOnEveryChannel
        /\ pc \in {"add_result", "advance"} \/ done => TriggersAsRequired
        /\ pc = "advance" => StepTail = <<[op |-> "add_result"]>>
        /\ done => StepTail = <<[op |-> "add_result"], [op |-> "last_volt"],
                                [op |-> "index"]>>

\* the configurations with a csv channel whose path is empty or names no file
CsvFailConfigs ==
    {c \in RunConfigIds :
        \E i \in 1..Len(RunConfigs[c].configs) :
            LET cfg == RunConfigs[c].configs[i]
            IN  cfg.waveform = "csv" /\ cfg.csv_path \notin DOMAIN DiskFiles}

\* C11: a run started with a csv channel whose path is empty or names a file
\* that does not exist never issues an instrument call, never produces a plan
\* and never calls add_result; when it has ended, run() has emitted the
\* status, then the error of the configuration (or of the database that
\* failed before), then finished, and nothing else.
C11_CsvPathFailsBeforeInstrument ==
    mon.c0 \in CsvFailConfigs =>
        /\ ~mon.anyInstr /\ obs.ops = <<>> /\ obs.nResults = 0
        /\ loc.plan = <<>> /\ loc.sweepers = <<>>
        /\ pc \in {"start", "setup", "except", "done"}
        /\ pc = "done" =>
              \E text \in {build_error(RunConfigs[mon.c0].configs), DbFault} :
                 RunSignals = <<Signal("status", "Running", "run"),
                                Signal("error", text, "run"),
                                Signal("finished", "", "run")>>

\* C11 happens: such a run has ended with the error of build_csv_wave
C11_Witness ==
    /\ mon.c0 \in CsvFailConfigs /\ pc = "done"
    /\ \E i \in 1..Len(RunSignals) :
          /\ RunSignals[i].sig = "error"
          /\ RunSignals[i].text \in
                {"CSV waveform selected but no file path provided.",
                 "CSV waveform file not found"}

\* the trigger phases of the step in progress
StepPhases == SelectSeq(obs.ops, LAMBDA o : o.op = "trigger")
\* the modes a trigger phase puts the channels in
PhaseModes(t) == {t.modes[i] : i \in 1..Len(t.modes)}
\* the values recorded in the result row for a parameter of a channel
Recorded(param, ch) ==
    {loc.row[i].value : i \in {j \in 1..Len(loc.row) :
                                loc.row[j].param = param /\ loc.row[j].ch = ch}}

\* C12: when the readings of a Measure step are in and a channel of the step
\* measures both voltage and current, exactly two trigger phases were issued;
\* every such channel was in voltage mode in the first and in current mode in
\* the second; the voltage recorded for it is its first-phase reading and the
\* current recorded for it is its second-phase reading.
C12_TwoPhasesForDual ==
    pc = "add_result" /\ _has_dual_measurement(loc.sweepers) =>
        LET src == step_source_values(loc.entry.volt, loc.sweepers)
            dual == dual_of(loc.sweepers)
        IN  /\ Len(StepPhases) = 2
            /\ \A i \in 1..Len(dual) :
                  LET ch == dual[i].channel
                  IN  /\ <<ch, "v">> \in PhaseModes(StepPhases[1])
                      /\ <<ch, "i">> \notin PhaseModes(StepPhases[1])
                      /\ <<ch, "i">> \in PhaseModes(StepPhases[2])
                      /\ <<ch, "v">> \notin PhaseModes(StepPhases[2])
                      /\ Recorded("meas_v", ch) = {Reading(src[ch], "v", 1)}
                      /\ Recorded("curr", ch) = {Reading(src[ch], "i", 2)}
                      /\ ~dual[i].independent =>
                            Recorded("volt", ch) = {Reading(src[ch], "v", 1)}

\* C12 happens: the readings of a step with a dual channel and two
\* single-quantity channels are in
C12_Witness ==
    /\ pc = "add_result" /\ _has_dual_measurement(loc.sweepers)
    /\ Len(loc.sweepers) = 3 /\ Len(StepPhases) = 2

\* the timing calls just issued and the step duration they were given:
\* by the step loop (lines 222-227) or by the priming (line 324)
TimingJustProgrammed ==
    IF pc = "set_v" /\ mon.timedStep
    THEN [calls |-> StepTiming, dt |-> loc.last_programmed_dt]
    ELSE IF pc = "priming" /\ obs.ops # <<>>
    THEN [calls |-> StepTiming, dt |-> Some(first_measure(loc.plan)[1].dt)]
    ELSE [calls |-> <<>>, dt |-> None]

\* C13 as stated: whenever timing is programmed, a channel measuring both
\* quantities gets half of the step duration and a channel measuring exactly
\* one quantity gets the full step duration, whatever the other channels
\* measure.  (Fails: next to a channel measuring both, every measuring
\* channel gets half.)
C13_AsClaimed ==
    LET t == TimingJustProgrammed
    IN  \A i \in 1..Len(t.calls) :
            LET s == loc.sweepers[i]
            IN  /\ t.calls[i].ch = s.channel
                /\ s.measure_voltage /\ s.measure_current =>
                        t.calls[i].dt_effective = t.dt[1] \div 2
                /\ s.measure_voltage # s.measure_current =>
                        t.calls[i].dt_effective = t.dt[1]

\* C13 amended: whenever timing is programmed, a channel measuring both
\* quantities gets half of the step duration; a channel measuring exactly one
\* quantity gets half of it when some channel of the step measures both, and
\* the full step duration otherwise; a channel measuring nothing gets the
\* full step duration.
C13_HalfWhenAnyDual ==
    LET t == TimingJustProgrammed
    IN  /\ t.calls # <<>> => Len(t.calls) = Len(loc.sweepers)
        /\ \A i \in 1..Len(t.calls) :
            LET s == loc.sweepers[i]
                halved == \/ s.measure_voltage /\ s.measure_current
                          \/ /\ s.measure_voltage \/ s.measure_current
                             /\ _has_dual_measurement(loc.sweepers)
            IN  /\ t.calls[i].ch = s.channel
                /\ t.calls[i].dt_effective =
                        IF halved THEN t.dt[1] \div 2 ELSE t.dt[1]

\* C13 happens: timing was programmed for a single-quantity channel next to
\* a channel measuring both
C13_Witness ==
    /\ TimingJustProgrammed.calls # <<>>
    /\ _has_dual_measurement(loc.sweepers)
    /\ \E i \in 1..Len(loc.sweepers) :
            loc.sweepers[i].measure_voltage # loc.sweepers[i].measure_current

\* ------------------------------------------------- build_plan on its own

\* the channels handed to build_plan: a fixed value (1 sample), a csv file
\* (2 samples, or none that is finite), a square wave (3 samples), a triangle
\* (5 samples), each with and without link_next
PlanChannels ==
    LET waves ==
          { [ChannelConfig("k1.smua", "fixed", FALSE, TRUE) EXCEPT !.v_fixed = 7000],
            [ChannelConfig("k1.smua", "csv", FALSE, TRUE) EXCEPT
                !.csv_path = "wave.csv"],
            [ChannelConfig("k1.smua", "csv", FALSE, TRUE) EXCEPT
                !.csv_path = "nan.csv"],
            [ChannelConfig("k1.smua", "square", FALSE, TRUE) EXCEPT
                !.v_high = 1000, !.v_low = -1000, !.n_low = 1, !.n_high = 1],
            [ChannelConfig("k1.smua", "triangle", FALSE, TRUE) EXCEPT
                !.first_node = 4000, !.second_node = 2000, !.start_voltage = 3000,
                !.dV = 1000] }
    IN  {[w EXCEPT !.link_next = b] : w \in waves, b \in BOOLEAN}

\* the arguments of the calls: build_plan(configs, dt_list, repeat, round_delay)
PlanArgs ==
    [configs : UNION {[1..n -> PlanChannels] : n \in 0..MaxChannels},
     dt_list : {SubSeq(<<20, 40, 30, 10>>, 1, n) : n \in 0..MaxDts},
     repeat : 0..MaxRepeat,
     round_delay : {-10, 0, 10}]

\* a caller holds the arguments and is about to call build_plan
PlanInit ==
    /\ self \in PlanArgs
    /\ mon = [args |-> self, files |-> DiskFiles, first |-> None]
    /\ pc = "plan_ready"
    /\ loc = [v_ranges |-> <<>>, groups |-> <<>>, sequence |-> <<>>,
              plan |-> <<>>, exc |-> ""]
    /\ ctl = [calls |-> 0]
    /\ obs = [files |-> DiskFiles]

\* the locals of build_plan (lines 213-215), its result and the exception it
\* raises ("" when it returns)
build_plan_locals(configs, dt_list, repeat, round_delay) ==
    IF build_error(configs) # ""
    THEN [v_ranges |-> <<>>, groups |-> <<>>, sequence |-> <<>>,
          plan |-> <<>>, exc |-> build_error(configs)]
    ELSE LET v_ranges == [i \in 1..Len(configs) |-> build_v_range(configs[i], TRUE)]
             groups == build_groups(configs)
         IN  [v_ranges |-> v_ranges, groups |-> groups,
              sequence |-> iterate_groups(groups, v_ranges),
              plan |-> build_plan(configs, dt_list, repeat, round_delay),
              exc |-> ""]

\* variant of the call in which build_plan consumes its dt_list argument
PlanCall_ConsumesDts ==
    /\ pc \in {"plan_ready", "plan_returned"}
    /\ loc' = build_plan_locals(self.configs, self.dt_list, self.repeat,
                                self.round_delay)
    /\ mon' = IF pc = "plan_ready"
              THEN [mon EXCEPT !.files = obs.files, !.first = Some(loc')]
              ELSE mon
    /\ pc' = IF pc = "plan_ready" THEN "plan_returned" ELSE "plan_done"
    /\ ctl' = [ctl EXCEPT !.calls = @ + 1]
    /\ self' = [self EXCEPT !.dt_list = <<>>]
    /\ UNCHANGED obs

\* a call of build_plan with the arguments the caller holds (lines 206-224)
PlanCall ==
    /\ pc \in {"plan_ready", "plan_returned"}
    /\ loc' = build_plan_locals(self.configs, self.dt_list, self.repeat,
                                self.round_delay)
    /\ mon' = IF pc = "plan_ready"
              THEN [mon EXCEPT !.files = obs.files, !.first = Some(loc')]
              ELSE mon
    /\ pc' = IF pc = "plan_ready" THEN "plan_returned" ELSE "plan_done"
    /\ ctl' = [ctl EXCEPT !.calls = @ + 1]
    /\ UNCHANGED <<self, obs>>

\* between two calls the csv file is rewritten: another sample, or no
\* finite sample at all
PlanFileRewritten ==
    /\ pc = "plan_returned"
    /\ obs.files = DiskFiles
    /\ \E data \in {<<2000>>, <<NonFinite>>} :
          obs' = [obs EXCEPT !.files["wave.csv"] = data]
    /\ UNCHANGED <<self, pc, loc, ctl, mon>>

PlanSpec == PlanInit /\ [][PlanCall \/ PlanFileRewritten]_vars

\* build_plan has returned a plan
PlanReturned == pc \in {"plan_returned", "plan_done"} /\ loc.exc = ""

\* the number of positions of a group: the length of its longest member
GroupLen(group) ==
    LET lens == {Len(loc.v_ranges[group[b]]) : b \in 1..Len(group)}
    IN  CHOOSE n \in lens : \A k \in lens : k <= n

\* the number of combinations of positions of the groups from the a-th on
RECURSIVE PositionsFrom(_)
PositionsFrom(a) ==
    IF a > Len(loc.groups) THEN 1
    ELSE GroupLen(loc.groups[a]) * PositionsFrom(a + 1)

\* the position (from 0) of the a-th group in the k-th (from 0) combination
\* of a row-major enumeration: the last group varies fastest
RowMajor(k, a) == (k \div PositionsFrom(a + 1)) % GroupLen(loc.groups[a])

\* C14: the plan build_plan returns begins (when it has a pass at all) with
\* as many Measure entries as the product of the group lengths, the k-th of
\* them holding every group at the position row-major order gives it (first
\* group slowest, last group fastest), and the pass ends there: what follows
\* is the end of the plan, a Sleep, or the first entry of the next pass.
C14_PassIsRowMajorProduct ==
    PlanReturned =>
        LET P == PositionsFrom(1)
            g == loc.groups
            iters == [a \in 1..Len(g) |-> group_iter(g[a], loc.v_ranges)]
            stride == [a \in 1..Len(g) |-> PositionsFrom(a + 1)]
        IN  /\ Len(loc.sequence) = P
            /\ loc.plan # <<>> =>
                /\ Len(loc.plan) >= P
                /\ \A k \in 0..(P - 1) :
                      /\ loc.plan[k + 1].type = "measure"
                      /\ Len(loc.plan[k + 1].volt) = Len(self.configs)
                      /\ \A a \in 1..Len(g) : \A b \in 1..Len(g[a]) :
                            loc.plan[k + 1].volt[g[a][b]] =
                                iters[a][((k \div stride[a]) % Len(iters[a])) + 1][b]
                /\ Len(loc.plan) > P =>
                      \/ loc.plan[P + 1].type = "sleep"
                      \/ /\ self.round_delay <= 0
                         /\ loc.plan[P + 1].volt = loc.plan[1].volt

\* C14 happens: two unlinked channels of 2 and 3 samples give 6 entries a pass
C14_Witness ==
    /\ PlanReturned /\ Len(loc.groups) = 2 /\ loc.plan # <<>>
    /\ GroupLen(loc.groups[1]) = 2 /\ GroupLen(loc.groups[2]) = 3
    /\ Len(loc.sequence) = 6
    /\ loc.plan[2].volt[1] = loc.plan[1].volt[1]
    /\ loc.plan[2].volt[2] # loc.plan[1].volt[2]

\* C15: in the sequence build_plan iterates, a group has as many positions
\* as its longest member has samples, and at position i every member holds
\* its i-th sample, or its last sample when it has fewer than i.
C15_LinkedChannelsZipEdgePadded ==
    PlanReturned =>
        \A k \in 0..(Len(loc.sequence) - 1) :
            \A a \in 1..Len(loc.groups) :
                LET group == loc.groups[a]
                    i == RowMajor(k, a) + 1
                IN  /\ i <= GroupLen(group)
                    /\ \A b \in 1..Len(group) :
                          LET r == loc.v_ranges[group[b]]
                          IN  loc.sequence[k + 1][group[b]] =
                                IF i <= Len(r) THEN r[i] ELSE r[Len(r)]

\* C15 happens: two linked channels of 3 and 5 samples give 5 positions, the
\* first channel repeating its last sample twice
C15_Witness ==
    /\ PlanReturned /\ Len(loc.groups) = 1 /\ Len(self.configs) = 2
    /\ Len(loc.v_ranges[1]) = 3 /\ Len(loc.v_ranges[2]) = 5
    /\ Len(loc.sequence) = 5
    /\ loc.sequence[4][1] = loc.v_ranges[1][3]
    /\ loc.sequence[5][1] = loc.v_ranges[1][3]
    /\ loc.sequence[5][2] = loc.v_ranges[2][5]

\* C16: the groups build_groups returns partition the channel indices (here
\* 1..n): every index is in exactly one group, every group is a run of
\* consecutive indices, the groups follow each other in declaration order,
\* two consecutive channels are in the same group iff the earlier one has
\* link_next, and the last channel is in a group whatever its link_next.
C16_GroupsPartitionInOrder ==
    PlanReturned =>
        LET g == loc.groups
            n == Len(self.configs)
            where(i) == {a \in 1..Len(g) : \E b \in 1..Len(g[a]) : g[a][b] = i}
        IN  /\ \A a \in 1..Len(g) :
                  /\ g[a] # <<>>
                  /\ \A b \in 1..Len(g[a]) : g[a][b] \in 1..n
                  /\ \A b \in 1..(Len(g[a]) - 1) : g[a][b + 1] = g[a][b] + 1
            /\ \A a \in 1..(Len(g) - 1) : g[a + 1][1] = g[a][Len(g[a])] + 1
            /\ \A i \in 1..n : Cardinality(where(i)) = 1
            /\ \A i \in 1..(n - 1) :
                  (where(i) = where(i + 1)) <=> self.configs[i].link_next
            /\ (n = 0) <=> (g = <<>>)

\* C16 happens: the last of two channels has link_next set and is in a group
C16_Witness ==
    /\ PlanReturned /\ Len(self.configs) = 2
    /\ ~self.configs[1].link_next /\ self.configs[2].link_next
    /\ loc.groups = << <<1>>, <<2>> >>

\* C17: the plan is, for each dt of dt_list in order, repeat copies of the
\* pass; a pass is the sequence as Measure entries carrying that dt,
\* followed by one Sleep(round_delay) when round_delay > 0 and by nothing
\* otherwise; so a plan with round_delay > 0 ends with a Sleep, a plan with
\* round_delay <= 0 has no Sleep, and a single channel with one sample gives
\* len(dt_list) * repeat Measure entries with the same voltage tuple.
C17_BlocksOfRepeatedPasses ==
    PlanReturned =>
        LET L == Len(loc.sequence)
            B == L + (IF self.round_delay > 0 THEN 1 ELSE 0)
            R == self.repeat
            measures == SelectSeq(loc.plan, LAMBDA e : e.type = "measure")
            sleeps == SelectSeq(loc.plan, LAMBDA e : e.type = "sleep")
        IN  /\ Len(loc.plan) = Len(self.dt_list) * R * B
            /\ \A idx \in 0..(Len(loc.plan) - 1) :
                  LET e == loc.plan[idx + 1]
                      within == idx % B
                  IN  IF within < L
                      THEN /\ e.type = "measure"
                           /\ e.dt = self.dt_list[(idx \div (R * B)) + 1]
                           /\ e.volt = loc.sequence[within + 1]
                      ELSE e.type = "sleep" /\ e.seconds = self.round_delay
            /\ self.round_delay > 0 /\ loc.plan # <<>> =>
                  loc.plan[Len(loc.plan)].type = "sleep"
            /\ self.round_delay > 0 => Len(sleeps) = Len(self.dt_list) * R
            /\ self.round_delay <= 0 => sleeps = <<>>
            /\ Len(self.configs) = 1 /\ Len(loc.v_ranges[1]) = 1 =>
                  /\ Len(measures) = Len(self.dt_list) * R
                  /\ \A i \in 1..Len(measures) :
                        measures[i].volt = <<loc.v_ranges[1][1]>>

\* C17 happens: two dt values, two repetitions, several positions, a sleep
C17_Witness ==
    /\ PlanReturned /\ Len(self.dt_list) = 2 /\ self.repeat = 2
    /\ self.round_delay > 0 /\ Len(loc.sequence) = 3
    /\ Len(loc.plan) = 16 /\ loc.plan[8].type = "sleep"
    /\ loc.plan[9].dt = self.dt_list[2] /\ loc.plan[1].dt = self.dt_list[1]

ResumeEntries ==
    {MeasureEntry(20, <<v>>) : v \in {0, 1, 3}}
        \cup {MeasureEntry(20, v) : v \in {<<0, 0>>, <<3000, 0>>, <<3000, 3>>}}
        \cup {SleepEntry(10)}

\* the arguments of the calls: find_resume_index(plan, last_volt, last_delta)
ResumeArgs ==
    [plan : UNION {[1..n -> ResumeEntries] : n \in 0..MaxPlanLen},
     last_volt : {None, Some(<<0>>), Some(<<1>>), Some(<<0, 0>>), Some(<<3000, 3>>)},
     last_delta : {None, Some(<<1>>), Some(<<-1>>), Some(<<0, 1>>), Some(<<0, -1>>)}]

\* a caller holds the arguments and is about to call find_resume_index
ResumeInit ==
    /\ self \in ResumeArgs
    /\ pc = "find_ready"
    /\ loc = [result |-> NotFound, with_delta |-> FALSE]
    /\ ctl = [calls |-> 0]
    /\ obs = [files |-> DiskFiles]
    /\ mon = [args |-> self]

\* find_resume_index(plan, last_volt, last_delta) is called and returns
FindCallDelta ==
    /\ pc = "find_ready"
    /\ loc' = [result |-> find_resume_index_delta(self.plan, self.last_volt,
                                                  self.last_delta),
               with_delta |-> self.last_delta # None]
    /\ pc' = "find_returned"
    /\ ctl' = [ctl EXCEPT !.calls = @ + 1]
    /\ UNCHANGED <<self, obs, mon>>

\* find_resume_index(plan, last_volt) is called and returns (the call of
\* voltage_sweeper.py line 188)
FindCall ==
    /\ pc = "find_ready"
    /\ loc' = [result |-> find_resume_index(self.plan, self.last_volt),
               with_delta |-> FALSE]
    /\ pc' = "find_returned"
    /\ ctl' = [ctl EXCEPT !.calls = @ + 1]
    /\ UNCHANGED <<self, obs, mon>>

ResumeSpec == ResumeInit /\ [][FindCallDelta \/ FindCall]_vars

\* the indices (from 0) of the Measure entries with the arity of last_volt
Matching ==
    IF self.last_volt = None THEN {}
    ELSE {i \in 0..(Len(self.plan) - 1) :
            /\ self.plan[i + 1].type = "measure"
            /\ Len(self.plan[i + 1].volt) = Len(self.last_volt[1])}

\* the squared distance of entry i to last_volt, computed channel by channel
DistOf(i) ==
    LET v == self.plan[i + 1].volt
        w == self.last_volt[1]
    IN  IF Len(v) = 1 THEN (v[1] - w[1]) * (v[1] - w[1])
        ELSE (v[1] - w[1]) * (v[1] - w[1]) + (v[2] - w[2]) * (v[2] - w[2])

\* the entries within the tie tolerance max(1e-12, best * 1e-6) of the
\* minimum distance
Tied ==
    LET nearest == {i \in Matching : \A j \in Matching : DistOf(i) <= DistOf(j)}
    IN  {i \in Matching : \A j \in nearest :
            DistOf(i) - DistOf(j) <= Max(AbsTol, DistOf(j) \div 1000000)}

\* the indices at which last_volt itself occurs
Occurrences == {i \in Matching : self.plan[i + 1].volt = self.last_volt[1]}

\* C19 as stated: when some Measure entry has the arity of last_volt, the
\* index returned is that of a Measure entry of that arity whose distance is
\* within the tie tolerance of the minimum; and when last_volt occurs at
\* exactly one index, that index is returned.  (Fails: with last_delta an
\* entry within the tolerance of the occurrence can be preferred to it.)
C19_AsClaimed ==
    pc = "find_returned" /\ Matching # {} =>
        /\ loc.result \in Tied
        /\ \A j \in Occurrences : Occurrences = {j} => loc.result = j

\* C19 amended: when some Measure entry has the arity of last_volt, the
\* index returned is that of a Measure entry of that arity whose distance is
\* within the tie tolerance of the minimum; and when last_volt occurs at
\* exactly one index, that index is returned if last_delta is not supplied
\* or if no other entry is within the tie tolerance.
C19_NearestWithinTolerance ==
    pc = "find_returned" /\ Matching # {} =>
        /\ loc.result \in Tied
        /\ \A j \in Occurrences :
              Occurrences = {j} /\ (~loc.with_delta \/ Tied = {j}) => loc.result = j

\* C19 happens: last_volt occurs once among several entries of its arity,
\* another entry is within the tolerance, and the occurrence is returned
C19_Witness ==
    /\ pc = "find_returned" /\ ~loc.with_delta
    /\ Occurrences = {loc.result} /\ loc.result > 0
    /\ Cardinality(Tied) = 2 /\ Cardinality(Matching) = 3

\* C20: when last_delta is not supplied, the index returned is the first in
\* plan order among the Measure entries within the tie tolerance of the
\* minimum distance, wherever the minimum itself is.  (Fails: an entry within
\* the tolerance that precedes the minimum is passed over.)
C20_AsClaimed ==
    pc = "find_returned" /\ ~loc.with_delta /\ Matching # {} =>
        /\ loc.result \in Tied
        /\ \A i \in Tied : loc.result <= i

\* C21: when last_delta is supplied (with the arity of last_volt), the index
\* returned is, among the Measure entries within the tie tolerance of the
\* minimum, the one whose step from its predecessor Measure entry has the
\* highest cosine to last_delta, the earliest on equal cosine; an entry
\* without predecessor or with a zero step is returned only when no entry
\* within the tolerance has a cosine, and then the first of them is.
\* (Fails: the entries within the tolerance that precede the minimum take no
\* part.)
C21_AsClaimed ==
    /\ pc = "find_returned" /\ loc.with_delta /\ Matching # {}
    /\ Len(self.last_delta[1]) = Len(self.last_volt[1])
    =>  LET score(i) == direction_alignment(self.plan, i, self.last_delta[1])
            scored == {i \in Tied : score(i).ok}
            top == {i \in scored :
                        \A j \in scored : ~AlignGreater(score(j), score(i))}
        IN  /\ loc.result \in Tied
            /\ scored # {} => loc.result \in top /\ \A i \in top : loc.result <= i
            /\ scored = {} => \A i \in Tied : loc.result <= i

\* C37: find_resume_index returns not-found exactly when the plan has no
\* Measure entry with the arity of last_volt; an index it returns is that of
\* a Measure entry of the plan with that arity; a last_delta whose arity
\* differs from that of last_volt gives the result of the call without
\* last_delta; and the arguments are left as they were.
C37_ArityAndNotFound ==
    pc = "find_returned" =>
        /\ (loc.result = NotFound) <=> (Matching = {})
        /\ loc.result # NotFound =>
                /\ loc.result \in 0..(Len(self.plan) - 1)
                /\ self.plan[loc.result + 1].type = "measure"
                /\ Len(self.plan[loc.result + 1].volt) = Len(self.last_volt[1])
        /\ (/\ loc.with_delta /\ self.last_volt # None
            /\ Len(self.last_delta[1]) # Len(self.last_volt[1])) =>
                loc.result = find_resume_index(self.plan, self.last_volt)
        /\ self = mon.args

\* C37 witness: a call with a last_delta of another arity than last_volt has
\* returned the index of an entry that comes after a Measure entry of another
\* arity, which was nearer on its first channel, and after a Sleep entry
C37_Witness ==
    /\ pc = "find_returned" /\ loc.with_delta /\ loc.result # NotFound
    /\ Len(self.last_delta[1]) # Len(self.last_volt[1])
    /\ \E i, j \in 1..loc.result :
          /\ self.plan[i].type = "sleep"
          /\ self.plan[j].type = "measure"
          /\ Len(self.plan[j].volt) # Len(self.last_volt[1])
          /\ self.plan[j].volt[1] = self.last_volt[1][1]
    /\ self.plan[loc.result + 1].volt[1] # self.last_volt[1][1]

\* ------------------------------------------------ build_v_range on its own

\* the configurations handed to build_v_range: every waveform kind that is
\* computed (csv is read from a file), counts from -1, offsets of both
\* signs.  The triangle nodes include the volts 0, 1, -1 with dV = 0.5 V
\* (2000000, -2000000, 1000000 units) and steps that do not divide a leg.
WaveArgs ==
    LET ch(w) == ChannelConfig("k1.smua", w, FALSE, TRUE)
        counts == -1..MaxCount
        offsets == -MaxOffset..MaxOffset
        tri(n, d) == [ch("triangle") EXCEPT !.start_voltage = n[1],
                        !.first_node = n[2], !.second_node = n[3], !.dV = d]
        triangle ==
          {tri(n, d) : n \in {<<0, 3000, -1000>>, <<1000, 1000, 1000>>,
                              <<2000, -4000, 0>>, <<0, 1000, 5000>>},
                       d \in {0, 1000, -1000, 2000}}
          \cup {tri(<<0, 2000000, -2000000>>, d) :
                       d \in {0, 1000000, -1000000, 3000000}}
        square ==
          {[ch("square") EXCEPT !.v_high = 1000, !.v_low = -1000, !.n_low = l,
                                !.n_high = h, !.n_ramp = r, !.n_offset = k] :
              l \in counts, h \in counts, r \in {-1, 0, 1}, k \in offsets}
        square3 ==
          {[ch("square-3") EXCEPT !.v_high = 1000, !.v_low = -1000,
                                  !.v_mid = 500, !.n_low = l, !.n_high = h,
                                  !.n_mid = m, !.n_offset = k] :
              l \in 0..1, h \in 0..1, m \in counts, k \in offsets}
        sine ==
          {[ch("sine") EXCEPT !.v_amp = 1000, !.v_offset = o, !.n_period = n] :
              o \in {0, 500}, n \in {-1, 0, 1, 2, 4}}
        fixed == {[ch("fixed") EXCEPT !.v_fixed = 7000]}
    IN  [cfg : triangle \cup square \cup square3 \cup sine \cup fixed,
         square_final_low : BOOLEAN]

\* a caller holds a configuration and is about to call build_v_range
WaveInit ==
    /\ self \in WaveArgs
    /\ mon = [args |-> self]
    /\ pc = "wave_ready"
    /\ loc = [v_range |-> <<>>]
    /\ ctl = [calls |-> 0]
    /\ obs = [files |-> DiskFiles]

\* build_v_range(cfg, square_final_low) (lines 39-60)
WaveCall ==
    /\ pc = "wave_ready"
    /\ loc' = [v_range |-> build_v_range(self.cfg, self.square_final_low)]
    /\ pc' = "wave_returned"
    /\ ctl' = [ctl EXCEPT !.calls = @ + 1]
    /\ UNCHANGED <<self, obs, mon>>

WaveSpec == WaveInit /\ [][WaveCall]_vars

C23_OffsetRotatesLeft ==
    LET cfg == self.cfg
        c(n) == Max(0, n)
        \* the number of samples of one cycle, from the counts
        size == IF cfg.waveform = "square"
                THEN c(cfg.n_low) + c(cfg.n_ramp) + c(cfg.n_high) + c(cfg.n_ramp)
                        + (IF self.square_final_low THEN c(cfg.n_low) ELSE 0)
                ELSE c(cfg.n_mid) + c(cfg.n_low) + c(cfg.n_mid) + c(cfg.n_high)
    IN
    /\ pc = "wave_returned" /\ cfg.waveform \in {"square", "square-3"}
    /\ size > 0
    =>  LET k == cfg.n_offset
            v == loc.v_range
            with(o) == build_v_range([cfg EXCEPT !.n_offset = o],
                                     self.square_final_low)
            base == with(0)
            count(s, x) == Cardinality({i \in 1..Len(s) : s[i] = x})
        IN  /\ Len(v) = size /\ Len(base) = size
            /\ \A i \in 1..size : v[i] = base[((i - 1 + k) % size) + 1]
            /\ \A i \in 1..size : count(v, v[i]) = count(base, v[i])
            /\ with(k + size) = v /\ with(k - size) = v

\* C23 witness: a square wave with its final low block and a negative
\* offset has been built and differs from the unshifted one
C23_Witness ==
    /\ pc = "wave_returned" /\ self.cfg.waveform = "square"
    /\ self.square_final_low /\ self.cfg.n_offset < 0
    /\ self.cfg.n_low > 0 /\ self.cfg.n_ramp > 0
    /\ loc.v_range # build_v_range([self.cfg EXCEPT !.n_offset = 0], TRUE)

\* C24: build_v_range returns at least one sample for every computed
\* waveform kind and every parameter value, negative counts counting as
\* zero; the degenerate configurations give one sample: a triangle with
\* dV = 0 its start voltage, fixed its v_fixed, a square without high, low
\* and ramp samples its v_low, a square-3 without samples its v_mid, and a
\* sine with n_period <= 1 one sample (its offset).
C24_NeverEmpty ==
    pc = "wave_returned"
    =>  LET cfg == self.cfg
            v == loc.v_range
            none(n) == n <= 0
        IN  /\ Len(v) >= 1
            /\ cfg.waveform = "triangle" /\ cfg.dV = 0
                    => v = <<cfg.start_voltage>>
            /\ cfg.waveform = "fixed" => v = <<cfg.v_fixed>>
            /\ cfg.waveform = "square" /\ none(cfg.n_high) /\ none(cfg.n_low)
                    /\ none(cfg.n_ramp)
                    => v = <<cfg.v_low>>
            /\ cfg.waveform = "square-3" /\ none(cfg.n_high) /\ none(cfg.n_low)
                    /\ none(cfg.n_mid)
                    => v = <<cfg.v_mid>>
            /\ cfg.waveform = "sine" /\ cfg.n_period <= 1
                    => v = <<cfg.v_offset>>

\* C24 witness: a square wave whose counts are all negative has been built
C24_Witness ==
    /\ pc = "wave_returned" /\ self.cfg.waveform = "square"
    /\ self.cfg.n_high < 0 /\ self.cfg.n_low < 0 /\ self.cfg.n_ramp < 0
    /\ Len(loc.v_range) = 1

\* C39 (as claimed): a triangle built with dV # 0 begins and ends at
\* start_voltage and contains first_node and second_node.
C39_AsClaimed ==
    pc = "wave_returned" /\ self.cfg.waveform = "triangle" /\ self.cfg.dV # 0
    =>  LET v == loc.v_range
        IN  /\ v # <<>>
            /\ v[1] = self.cfg.start_voltage
            /\ v[Len(v)] = self.cfg.start_voltage
            /\ \E i \in 1..Len(v) : v[i] = self.cfg.first_node
            /\ \E i \in 1..Len(v) : v[i] = self.cfg.second_node

\* ------------------------------------------------------ the run, continued

\* C25: whenever run() reads plan[step_index] (line 195) the index is within
\* the current plan, also after a resume that installed a shorter plan, a
\* plan of another arity, or came before any step had completed; and the
\* index assigned by the re-anchoring (line 190) is that of a Measure entry.
C25_IndexWithinPlan ==
    /\ pc = "entry" => self.step_index \in 0..(Len(loc.plan) - 1)
    /\ pc = "clear_rebuild" /\ self.last_volt # None
            /\ find_resume_index(loc.plan, self.last_volt) # NotFound
        =>  /\ self.step_index = find_resume_index(loc.plan, self.last_volt)
            /\ self.step_index \in 0..(Len(loc.plan) - 1)
            /\ loc.plan[self.step_index + 1].type = "measure"

\* C25 witness: run() reads an entry of the three-entry plan of configuration
\* 2 (two channels) installed by a resume of a run that started with the
\* four-entry plan of configuration 1 (one channel) and has applied a voltage
C25_Witness ==
    /\ pc = "entry" /\ mon.c0 = 1 /\ loc.plan = PlanOf[2]
    /\ Len(PlanOf[2]) < Len(PlanOf[1])
    /\ self.last_volt # None /\ Len(self.last_volt[1]) = 1

\* C26: once request_resume(c) has returned and no later request_resume has
\* been called, every Measure step of an iteration that passes the pause
\* gate from then on is carried out with the sweepers and the plan built
\* from c.  (Fails: a rebuild in progress clears the flag a later
\* request_resume has set.)
C26_AsClaimed ==
    /\ pc \in {"timing", "set_v", "trigger", "add_result", "advance"}
    /\ mon.stepCfg # 0 /\ mon.lastResume = mon.stepCfg
    =>  /\ loc.sweepers = SweepersOf[mon.stepCfg]
        /\ loc.plan = PlanOf[mon.stepCfg]

\* the run under scheduling assumptions: the worker thread is scheduled
\* whenever it can take a step, build_plan and the trigger and read calls of
\* a step return, the clock advances, a request_* call that has begun runs
\* to its return, and the GUI thread makes the request_resume that follows a
\* request_pause in its script
FairSpec ==
    /\ Spec
    /\ WF_vars(RunStart \/ Setup \/ BuildPlanArgs \/ PrimeStart \/ PrimeEnd
                \/ LoopTop \/ Gate \/ RebuildCheck \/ BuildSweepers \/ Reanchor
                \/ ClearRebuild \/ ReadEntry \/ SleepDone \/ DeadlineDone
                \/ ProgramTiming \/ SetVoltages \/ AddResult \/ Advance
                \/ Export \/ RampDown \/ Finish \/ Except)
    /\ []<>(pc # "bp_call")
    /\ []<>(pc # "trigger")
    /\ WF_vars(Tick)
    /\ WF_vars(Control /\ (\/ ctl.pc # "idle"
                           \/ /\ ctl.calls > 0
                              /\ ctl.script[ctl.calls].kind = "pause"
                              /\ NextCall("resume")))

C28_AsClaimed ==
    /\ pc = "clear_rebuild" /\ mon.lastDone # NotFound
    /\ \A k \in 1..ctl.calls :
            ctl.script[k].kind = "resume" => ctl.script[k].c = mon.c0
    =>  self.step_index >= mon.lastDone

\* C29: while run() executes a Sleep entry (from reading it at line 195 to
\* the increment of line 201) no instrument call and no add_result is made,
\* the last applied voltages and the timing last programmed stay as they
\* are, and the step index changes once, by one, when the wait is over; the
\* last applied voltages change only in the closing lines of a Measure step
\* whose result has been added, and become the voltages of that entry.
C29_SleepFrame ==
    [][ /\ (pc = "sleep_wait" \/ pc' = "sleep_wait")
            =>  /\ obs'.ops = obs.ops /\ mon'.anyInstr = mon.anyInstr
                /\ obs'.nResults = obs.nResults
                /\ self'.last_volt = self.last_volt
                /\ loc'.last_programmed_dt = loc.last_programmed_dt
                /\ loc'.last_split_for_dual = loc.last_split_for_dual
                /\ self'.step_index = IF pc = "sleep_wait" /\ pc' # "sleep_wait"
                                      THEN self.step_index + 1
                                      ELSE self.step_index
        /\ self'.last_volt # self.last_volt
            =>  /\ pc = "advance" /\ loc.entry.type = "measure"
                /\ obs.nResults = mon.nMeasureDone + 1
                /\ self'.last_volt = Some(loc.entry.volt) ]_vars

\* C29 witness: a Sleep entry has just been executed, after Measure steps
C29_Witness ==
    /\ pc = "loop" /\ self.step_index > 0 /\ self.step_index <= Len(loc.plan)
    /\ loc.plan[self.step_index].type = "sleep"
    /\ self.last_volt # None /\ loc.last_programmed_dt # None

\* C30: a Measure step writes the instrument timing if and only if no timing
\* has been written yet in the run, or the step duration computed for the
\* step differs by more than the re-program threshold from the duration of
\* the last timing written, or the two-phase mode of the step differs from
\* that of the last timing written; it then writes it on every channel, for
\* the computed duration and mode, and otherwise writes none.
C30_ReprogramIffChanged ==
    [][ pc = "timing" /\ pc' = "set_v"
        =>  LET measuring == \E i \in 1..Len(loc.sweepers) :
                                \/ loc.sweepers[i].measure_voltage
                                \/ loc.sweepers[i].measure_current
                split == \E i \in 1..Len(loc.sweepers) :
                                /\ loc.sweepers[i].measure_voltage
                                /\ loc.sweepers[i].measure_current
                computed == IF measuring
                            THEN Max(MinProgrammedStep,
                                     loc.entry.dt - self.visa_overhead)
                            ELSE loc.entry.dt
                last == mon.lastTiming
                changed == \/ last = None
                           \/ Abs(computed - last[1].dt_in) > ReprogramThreshold
                           \/ split # last[1].split_for_dual
                written == SubSeq(obs'.ops, Len(obs.ops) + 1, Len(obs'.ops))
            IN  IF changed
                THEN /\ Len(written) = Len(loc.sweepers)
                     /\ \A i \in 1..Len(written) :
                            /\ written[i].op = "timing"
                            /\ written[i].ch = loc.sweepers[i].channel
                            /\ written[i].dt_in = computed
                            /\ written[i].split_for_dual = split
                ELSE written = <<>> ]_vars

\* C30 witness: a Measure step has written no timing, the timing having been
\* written by an earlier step of the run for the same duration and mode, and
\* that earlier write was itself a re-programming after a change of mode
C30_Witness ==
    /\ pc = "set_v" /\ ~mon.timedStep /\ mon.nMeasureDone > 1
    /\ mon.lastTiming # None
    /\ mon.stepCfg # 0 /\ mon.stepCfg # mon.c0
    /\ mon.lastTiming[1].split_for_dual # _has_dual_measurement(SweepersOf[mon.c0])

\* C31 (as claimed): once a request_resume with another delay_ratio or other
\* channels, the first of the run and made after a Measure step of the
\* run, has returned and run() has rebuilt its sweepers from it, then
\* by the time the voltages of a Measure step are programmed, a timing has
\* been written on every channel of the new configuration and the last one
\* written on it carries the new delay_ratio.
C31_AsClaimed ==
    /\ pc = "trigger" /\ ctl.pc = "idle"
    /\ mon.resumedAt
    /\ Cardinality({k \in 1..ctl.calls : ctl.script[k].kind = "resume"}) = 1
    /\ mon.stepCfg # 0 /\ mon.lastResume = mon.stepCfg
    /\ loc.sweepers = SweepersOf[mon.stepCfg]
    /\ self.delay_ratio = RunConfigs[mon.stepCfg].delay_ratio
    /\ \/ RunConfigs[mon.stepCfg].delay_ratio # RunConfigs[mon.c0].delay_ratio
       \/ {loc.sweepers[i].channel : i \in 1..Len(loc.sweepers)}
            # {SweepersOf[mon.c0][i].channel : i \in 1..Len(SweepersOf[mon.c0])}
    =>  \A i \in 1..Len(loc.sweepers) :
            LET w == mon.chTiming[loc.sweepers[i].channel]
            IN  /\ w # None
                /\ w[1].delay_ratio = self.delay_ratio

\* C32 (as claimed): when the trigger phases of a Measure step are over,
\* every channel of the sweepers has had its voltage programmed in the step
\* and has been named in a bus trigger issued after that.
C32_AsClaimed ==
    pc = "add_result" =>
        \A i \in 1..Len(loc.sweepers) :
            \E j, k \in 1..Len(obs.ops) :
                /\ j < k
                /\ obs.ops[j].op = "set_v"
                /\ obs.ops[j].ch = loc.sweepers[i].channel
                /\ obs.ops[k].op = "trigger"
                /\ \E n \in 1..Len(obs.ops[k].modes) :
                        obs.ops[k].modes[n][1] = loc.sweepers[i].channel

\* C33: the overhead estimate is assigned by the calibration that follows
\* priming and by no other step of the run or of the control thread; the
\* calibration runs before any plan entry and assigns
\* min(max(0, elapsed - dt), dt/2) for the dt of the first Measure entry of
\* the plan, and 0 when there is none, when that dt is not positive or when
\* no channel measures anything; and a Measure step with a measuring channel
\* that writes the timing writes it for max(1 ms, dt - overhead).
C33_OverheadSetOnce ==
    [][ LET measuring == \E i \in 1..Len(loc.sweepers) :
                                \/ loc.sweepers[i].measure_voltage
                                \/ loc.sweepers[i].measure_current
            ms == SelectSeq(loc.plan, LAMBDA e : e.type = "measure")
            written == SubSeq(obs'.ops, Len(obs.ops) + 1, Len(obs'.ops))
        IN  /\ IF pc = "priming" /\ pc' # "priming"
               THEN /\ ~loc.in_loop /\ self.step_index = 0 /\ obs.nResults = 0
                    /\ self.visa_overhead = 0
                    /\ self'.visa_overhead =
                          IF ms = <<>> \/ ~measuring THEN 0
                          ELSE IF ms[1].dt <= 0 THEN 0
                          ELSE Min(Max(0, loc.prime_elapsed - ms[1].dt),
                                   ms[1].dt \div 2)
               ELSE self'.visa_overhead = self.visa_overhead
            /\ pc = "timing" /\ pc' = "set_v" /\ measuring =>
                    \A i \in 1..Len(written) :
                        written[i].dt_in = Max(MinProgrammedStep,
                                               loc.entry.dt - self.visa_overhead) ]_vars

\* C33 witness: the calibration has left a positive overhead, and a Measure
\* step made after a resume with another dt has written the timing for the
\* new duration less that overhead
C33_Witness ==
    /\ pc = "set_v" /\ mon.timedStep /\ mon.nMeasureDone > 0
    /\ self.visa_overhead = 10 /\ loc.entry.dt = 40
    /\ mon.lastTiming # None /\ mon.lastTiming[1].dt_in = 30

\* C34 (as claimed): whenever no call of request_pause, request_resume or
\* request_stop is in progress, is_paused is true exactly when the pause
\* event is cleared.
C34_AsClaimed ==
    ctl.pc = "idle" => (self.is_paused <=> ~self.pause_event)

\* C35: when the readings of a Measure step with a channel measuring both
\* quantities are in, every channel measuring voltage only was named in both
\* trigger phases in voltage mode and the voltage recorded for it is the mean
\* of its two phase readings, and every channel measuring current only was
\* named in both phases in current mode and the current recorded for it is
\* the mean of its two phase readings.
C35_SingleQuantityAveraged ==
    pc = "add_result" /\ (\E i \in 1..Len(loc.sweepers) :
                            /\ loc.sweepers[i].measure_voltage
                            /\ loc.sweepers[i].measure_current) =>
        LET src == step_source_values(loc.entry.volt, loc.sweepers)
            mean(ch, mode) == (Reading(src[ch], mode, 1)
                                + Reading(src[ch], mode, 2)) \div 2
        IN  /\ Len(StepPhases) = 2
            /\ \A i \in 1..Len(loc.sweepers) :
                  LET s == loc.sweepers[i]
                      ch == s.channel
                  IN  /\ s.measure_voltage /\ ~s.measure_current =>
                            /\ \A p \in 1..2 :
                                  /\ <<ch, "v">> \in PhaseModes(StepPhases[p])
                                  /\ <<ch, "i">> \notin PhaseModes(StepPhases[p])
                            /\ Recorded("meas_v", ch) = {mean(ch, "v")}
                            /\ Recorded("curr", ch) = {}
                      /\ s.measure_current /\ ~s.measure_voltage =>
                            /\ \A p \in 1..2 :
                                  /\ <<ch, "i">> \in PhaseModes(StepPhases[p])
                                  /\ <<ch, "v">> \notin PhaseModes(StepPhases[p])
                            /\ Recorded("curr", ch) = {mean(ch, "i")}
                            /\ Recorded("meas_v", ch) = {}

\* C35 witness: the readings of a two-phase step are in for a channel that
\* measures voltage only and for one that measures current only, and the
\* two phase readings of each differ
C35_Witness ==
    /\ pc = "add_result"
    /\ \E i, j, k \in 1..Len(loc.sweepers) :
          /\ loc.sweepers[i].measure_voltage /\ loc.sweepers[i].measure_current
          /\ loc.sweepers[j].measure_voltage /\ ~loc.sweepers[j].measure_current
          /\ loc.sweepers[k].measure_current /\ ~loc.sweepers[k].measure_voltage
          /\ Recorded("meas_v", loc.sweepers[j].channel) # {}
          /\ Recorded("curr", loc.sweepers[k].channel) # {}
    /\ Reading(1, "v", 1) # Reading(1, "v", 2)

\* C36 (as claimed): the row handed to add_result on a Measure step holds one elapsed-time
\* entry and, for every channel, one voltage entry, one current entry exactly
\* when measure_current is set and one measured-voltage entry exactly when
\* measure_voltage is set, and nothing else; the voltage entry of an
\* independent channel is its source voltage, that of another channel its
\* measured voltage when measure_voltage is set and its source voltage when
\* not; the source voltage is a value the bus reported for the channel when a
\* trigger phase of the step named it, and the voltage of the plan entry
\* otherwise.
C36_AsClaimed ==
    pc = "add_result" =>
        LET src == step_source_values(loc.entry.volt, loc.sweepers)
            at(param, ch) == {j \in 1..Len(loc.row) :
                                loc.row[j].param = param /\ loc.row[j].ch = ch}
            named(ch) == {q \in 1..Len(StepPhases) :
                            \E n \in 1..Len(StepPhases[q].modes) :
                                StepPhases[q].modes[n][1] = ch}
            planned(ch) == IF ch \in DOMAIN src THEN {src[ch]} ELSE {}
            sources(ch) == IF named(ch) = {} THEN planned(ch)
                           ELSE {v + q : v \in planned(ch), q \in named(ch)}
            count(b) == IF b THEN 1 ELSE 0
        IN  /\ Cardinality({j \in 1..Len(loc.row) : loc.row[j].param = "time"}) = 1
            /\ Cardinality({j \in 1..Len(loc.row) : loc.row[j].param # "time"})
                    = Cardinality(UNION {at(prm, loc.sweepers[i].channel) :
                            prm \in {"volt", "curr", "meas_v"},
                            i \in 1..Len(loc.sweepers)})
            /\ \A i \in 1..Len(loc.sweepers) :
                  LET s == loc.sweepers[i]
                      ch == s.channel
                  IN  /\ Cardinality(at("volt", ch)) = 1
                      /\ Cardinality(at("curr", ch)) = count(s.measure_current)
                      /\ Cardinality(at("meas_v", ch)) = count(s.measure_voltage)
                      /\ IF s.independent \/ ~s.measure_voltage
                         THEN /\ Recorded("volt", ch) \subseteq sources(ch)
                              /\ sources(ch) # {}
                         ELSE Recorded("volt", ch) = Recorded("meas_v", ch)

\* C38 (as claimed): a run that has failed with an exception has made no CSV
\* export.
C38_AsClaimed ==
    pc \in {"except", "done"} /\ loc.exc # "" => obs.nExports = 0

\* C38: a call that raises before the export is reached leaves the run
\* without export and without ramp to zero; from a raised exception on, the
\* worker appends the error and the finished signal and does nothing else: no
\* instrument call, no add_result, no export. On the way to a normal end the
\* export (made exactly when a path is configured) comes before the ramp to
\* zero (made exactly when it is enabled), and both come before finished.
C38_PostActions ==
    [][ LET finished == \E k \in 1..Len(obs.signals) : obs.signals[k].sig = "finished"
            fromRun == SelectSeq(SubSeq(obs'.signals, Len(obs.signals) + 1,
                                        Len(obs'.signals)),
                                 LAMBDA g : g.by = "run")
            quiet == /\ obs'.ops = obs.ops /\ obs'.nResults = obs.nResults
                     /\ obs'.nExports = obs.nExports /\ obs'.lastResult = obs.lastResult
                     /\ mon'.anyInstr = mon.anyInstr /\ mon'.ramp = mon.ramp
                     /\ loc' = loc
        IN  /\ pc' = "except" /\ pc \notin {"except", "ramp_down"} =>
                    obs'.nExports = 0 /\ mon'.ramp = "none" /\ ~finished
            /\ pc = "except" /\ pc' # pc =>
                    /\ pc' = "done" /\ quiet
                    /\ fromRun = <<Signal("error", loc.exc, "run"),
                                   Signal("finished", "", "run")>>
            /\ pc = "done" => pc' = "done" /\ quiet /\ fromRun = <<>>
            /\ pc = "after_loop" /\ pc' = "ramp_down" =>
                    /\ obs.nExports = 0 /\ mon.ramp = "none" /\ ~finished
                    /\ obs'.nExports = IF self.csv_path # "" THEN 1 ELSE 0
            /\ pc = "ramp_down" /\ pc' # pc =>
                    /\ obs.nExports = IF self.csv_path # "" THEN 1 ELSE 0
                    /\ mon.ramp = "none" /\ ~finished
                    /\ pc' = "finish" =>
                            (mon'.ramp = "done" <=> self.ramp_down /\ loc.sweepers # <<>>)
            /\ pc = "finish" /\ pc' # pc =>
                    /\ ~finished /\ pc' = "done" /\ loc.exc = ""
                    /\ obs'.nExports = IF self.csv_path # "" THEN 1 ELSE 0
                    /\ mon'.ramp = IF self.ramp_down /\ loc.sweepers # <<>>
                                   THEN "done" ELSE "none"
                    /\ fromRun = <<Signal("finished", "", "run")>> ]_vars

\* C38 witness: a run with a CSV path and the ramp to zero enabled has failed
\* after a recorded step and has ended with error and finished, without
\* export and without ramp
C38_Witness ==
    /\ pc = "done" /\ loc.exc # "" /\ obs.nResults > 0
    /\ self.csv_path # "" /\ self.ramp_down
    /\ obs.nExports = 0 /\ mon.ramp = "none"
    /\ Len(obs.signals) >= 2
    /\ obs.signals[Len(obs.signals)].sig = "finished"

\* -------------------------------------------- a trigger phase on its own

\* variant of trigger_fns.trigger that sends *TRG for every channel with a
\* parent, without the seen set of lines 47-57
trigger_PerChannel(keithleys, channels) ==
    LET arm == [k \in 1..(2 * Len(channels)) |->
                  [op |-> "write", to |-> channels[(k + 1) \div 2].name,
                   cmd |-> IF k % 2 = 1 THEN "clear" ELSE "initiate"]]
        inst_of(ch) == IF ch.root_instrument # None THEN ch.root_instrument
                       ELSE ch._parent
        withParent == SelectSeq(channels, LAMBDA ch : inst_of(ch) # None)
        insts == [k \in 1..Len(withParent) |-> inst_of(withParent[k])[1]]
        trigger_insts == IF insts = <<>> THEN keithleys ELSE insts
    IN  arm \o [k \in 1..Len(trigger_insts) |->
                  [op |-> "write", to |-> trigger_insts[k], cmd |-> "*TRG"]]

\* trigger_fns.trigger(keithleys, channels) (lines 40-62), as the writes it
\* issues: nvbuffer1.clear() and trigger.initiate() on every channel, then
\* *TRG on every instrument of trigger_insts. A channel is a record
\* [name, root_instrument, _parent], the two attributes being Options.
trigger(keithleys, channels) ==
    LET arm == [k \in 1..(2 * Len(channels)) |->
                  [op |-> "write", to |-> channels[(k + 1) \div 2].name,
                   cmd |-> IF k % 2 = 1 THEN "clear" ELSE "initiate"]]
        inst_of(ch) == IF ch.root_instrument # None THEN ch.root_instrument
                       ELSE ch._parent
        RECURSIVE collect(_, _)
        collect(k, trigger_insts) ==
            IF k > Len(channels) THEN trigger_insts
            ELSE LET inst == inst_of(channels[k])
                 IN  IF inst = None
                        \/ \E j \in 1..Len(trigger_insts) : trigger_insts[j] = inst[1]
                     THEN collect(k + 1, trigger_insts)
                     ELSE collect(k + 1, Append(trigger_insts, inst[1]))
        found == collect(1, <<>>)
        trigger_insts == IF found = <<>> THEN keithleys ELSE found
    IN  arm \o [k \in 1..Len(trigger_insts) |->
                  [op |-> "write", to |-> trigger_insts[k], cmd |-> "*TRG"]]

\* a caller holds channel_modes (a dict: its keys, distinct channels, in
\* insertion order, each with its mode) and the instruments of the station,
\* and is about to call _trigger_phase; combined tells whether the
\* instrument answers the combined buffer query of recall_buffer
PhaseInit ==
    /\ LET pool == { [name |-> "k1.smua", root_instrument |-> Some("k1"), _parent |-> None],
                     [name |-> "k1.smub", root_instrument |-> None, _parent |-> Some("k1")],
                     [name |-> "k2.smua", root_instrument |-> Some("k2"), _parent |-> Some("k1")],
                     [name |-> "probe", root_instrument |-> None, _parent |-> None],
                     [name |-> "probe2", root_instrument |-> None, _parent |-> None] }
       IN  self \in [channel_modes :
                        {m \in UNION {[1..n -> pool \X {"v", "i"}] :
                                        n \in 0..MaxPhaseChannels} :
                            \A i, j \in 1..Len(m) : m[i][1] = m[j][1] => i = j},
                     keithleys : {<<"k1", "k2">>},
                     combined : BOOLEAN]
    /\ pc = "phase_ready"
    /\ loc = [calls |-> <<>>, source_vals |-> EmptyDict, readings |-> EmptyDict]
    /\ ctl = [calls |-> 0]
    /\ obs = [files |-> DiskFiles]
    /\ mon = [args |-> self]

\* _trigger_phase(channel_modes) (voltage_sweeper.py lines 447-464) with
\* set_measure_mode, trigger and recall_buffer of trigger_fns.py: nothing for
\* an empty dict; otherwise the mode of every channel, the trigger, and for
\* every channel the combined buffer query, followed by the two single
\* queries when the combined one gave no pair
PhaseCall ==
    /\ pc = "phase_ready"
    /\ LET cm == self.channel_modes
           channels == [k \in 1..Len(cm) |-> cm[k][1]]
           modes == [k \in 1..Len(cm) |->
                        [op |-> "write", to |-> cm[k][1].name,
                         cmd |-> IF cm[k][2] = "v" THEN "measure.v" ELSE "measure.i"]]
           recall(ch) == IF self.combined
                         THEN <<[op |-> "ask", to |-> ch.name, cmd |-> "pair"]>>
                         ELSE <<[op |-> "ask", to |-> ch.name, cmd |-> "pair"],
                                [op |-> "ask", to |-> ch.name, cmd |-> "sourcevalues"],
                                [op |-> "ask", to |-> ch.name, cmd |-> "readings"]>>
           RECURSIVE recalls(_)
           recalls(k) == IF k > Len(channels) THEN <<>>
                         ELSE recall(channels[k]) \o recalls(k + 1)
           names == {channels[k].name : k \in 1..Len(channels)}
           mode_of(n) == cm[CHOOSE k \in 1..Len(cm) : cm[k][1].name = n][2]
       IN  loc' = IF cm = <<>>
                  THEN [calls |-> <<>>, source_vals |-> EmptyDict,
                        readings |-> EmptyDict]
                  ELSE [calls |-> modes \o trigger(self.keithleys, channels)
                                    \o recalls(1),
                        source_vals |-> [n \in names |-> 1],
                        readings |-> [n \in names |-> Reading(0, mode_of(n), 1)]]
    /\ pc' = "phase_returned"
    /\ ctl' = [ctl EXCEPT !.calls = @ + 1]
    /\ UNCHANGED <<self, obs, mon>>

PhaseSpec == PhaseInit /\ [][PhaseCall]_vars

\* C40: in a trigger phase with at least one channel, every channel has its
\* measure mode written once, in its mode, then its buffer cleared once and
\* its trigger initiated once, all before the first *TRG; *TRG is written
\* once to each instrument that is the parent of a channel of the phase and
\* to no other, or, when no channel has a parent, once to each instrument of
\* the station; and after the last *TRG one pair of source value and reading
\* is read back for each channel and for nothing else. A phase without
\* channels issues no call.
C40_PhaseProtocol ==
    pc = "phase_returned" =>
        LET cm == self.channel_modes
            w == loc.calls
            at(to, cmds) == {k \in 1..Len(w) : w[k].to = to /\ w[k].cmd \in cmds}
            trg == {k \in 1..Len(w) : w[k].cmd = "*TRG"}
            parent(ch) == IF ch.root_instrument # None THEN ch.root_instrument
                          ELSE ch._parent
            parents == {parent(cm[k][1])[1] :
                            k \in {j \in 1..Len(cm) : parent(cm[j][1]) # None}}
            targets == IF parents = {} THEN {"k1", "k2"} ELSE parents
        IN  IF cm = <<>> THEN w = <<>> /\ DOMAIN loc.readings = {}
            ELSE /\ \A k \in 1..Len(cm) :
                      LET n == cm[k][1].name
                          own == IF cm[k][2] = "v" THEN "measure.v" ELSE "measure.i"
                      IN  /\ Cardinality(at(n, {"measure.v", "measure.i"})) = 1
                          /\ Cardinality(at(n, {own})) = 1
                          /\ Cardinality(at(n, {"clear"})) = 1
                          /\ Cardinality(at(n, {"initiate"})) = 1
                          /\ \A a \in at(n, {own}), b \in at(n, {"clear"}),
                                c \in at(n, {"initiate"}), t \in trg :
                                    a < b /\ b < c /\ c < t
                          /\ Cardinality(at(n, {"pair"})) = 1
                          /\ \A a \in at(n, {"pair", "sourcevalues", "readings"}),
                                t \in trg : t < a
                          /\ n \in DOMAIN loc.source_vals /\ n \in DOMAIN loc.readings
                 /\ {w[k].to : k \in trg} = targets
                 /\ Cardinality(trg) = Cardinality(targets)
                 /\ DOMAIN loc.readings = {cm[k][1].name : k \in 1..Len(cm)}
                 /\ DOMAIN loc.source_vals = DOMAIN loc.readings
                 /\ \A k \in 1..Len(w) :
                        \/ k \in trg
                        \/ \E j \in 1..Len(cm) : w[k].to = cm[j][1].name

\* C40 witness: a phase of three channels has returned, two of them with the
\* same parent instrument (one resolved through root_instrument, one through
\* _parent) and one without a parent: one *TRG was written, three pairs read
C40_Witness ==
    /\ pc = "phase_returned" /\ Len(self.channel_modes) = 3
    /\ \E i, j, k \in 1..3 :
          /\ self.channel_modes[i][1].root_instrument = Some("k1")
          /\ self.channel_modes[j][1].root_instrument = None
          /\ self.channel_modes[j][1]._parent = Some("k1")
          /\ self.channel_modes[k][1].root_instrument = None
          /\ self.channel_modes[k][1]._parent = None
    /\ Cardinality({k \in 1..Len(loc.calls) : loc.calls[k].cmd = "*TRG"}) = 1
    /\ Cardinality(DOMAIN loc.readings) = 3

====
